---- MODULE Spec2Model ----
(***************************************************************************)
(* A model of the Python binding surface of triton-client:                 *)
(*   - the list containers ListBool .. ListF64 of py_vec_types,            *)
(*   - the accessors Get_/Take_/Replace_/Set_<field> and replace_<field>   *)
(*     that the derive macros of triton-client-macros generate for a       *)
(*     Vec<T> field, and the replace_<field> generated for Vec<Vec<u8>>.   *)
(* A struct instance owns one flat field (Vec<T>) and one nested field     *)
(* (Vec<Vec<u8>>); the host holds one container object.  Every action is   *)
(* one call from the host; `last` records the call and what it returned.   *)
(* The expansion of the derive macros themselves (ImplPyNew,               *)
(* ImplPyZeroCopy, ImplPyVecAccessors) on a struct, an enum or a union is  *)
(* followed in `gen`, and the ownership of the Vec buffers, as well as     *)
(* host threads calling one instance in parallel, in `heap`.               *)
(* The process that loads the module, with its runtime cell, its logger    *)
(* and its Client, is in `proc`.                                           *)
(***************************************************************************)
EXTENDS Integers, Sequences, FiniteSets, TLC

VARIABLES kind, field, list, last, rt, matrix, mlast, gen, heap, proc

vars == <<kind, field, list, last, rt, matrix, mlast, gen, heap, proc>>

----------------------------------------------------------------------------
(* Bounds of the model. *)

\* longest Vec / container / host sequence explored
MaxLen == 2
\* largest row count and row width of a two-dimensional buffer
MaxRows == 2
MaxCols == 3

\* element values moved around by the accessors; both are values of every
\* numeric kind (False/True for bool)
Elems == {0, 1}

SeqsUpTo(S, n) == UNION {[1..k -> S] : k \in 0..n}

----------------------------------------------------------------------------
(* The numeric kinds and the tables of the macros. *)

\* is_supported_numeric_type: the eleven accepted element type names
Kinds == {"bool", "i8", "i16", "i32", "i64", "u8", "u16", "u32", "u64", "f32", "f64"}

\* get_type_info, superseded variant: the entry of i8 is missing and i8
\* takes the default
MutType_info_without_i8(k) ==
    CASE k = "bool" -> "ListBool"
      [] k = "i16"  -> "ListI16"
      [] k = "i32"  -> "ListI32"
      [] k = "i64"  -> "ListI64"
      [] k = "u8"   -> "ListU8"
      [] k = "u16"  -> "ListU16"
      [] k = "u32"  -> "ListU32"
      [] k = "u64"  -> "ListU64"
      [] k = "f32"  -> "ListF32"
      [] k = "f64"  -> "ListF64"
      [] OTHER      -> "ListI32"

\* get_type_info: element type name -> container type name (ListI32 otherwise)
get_type_info(k) ==
    CASE k = "bool" -> "ListBool"
      [] k = "i8"   -> "ListI8"
      [] k = "i16"  -> "ListI16"
      [] k = "i32"  -> "ListI32"
      [] k = "i64"  -> "ListI64"
      [] k = "u8"   -> "ListU8"
      [] k = "u16"  -> "ListU16"
      [] k = "u32"  -> "ListU32"
      [] k = "u64"  -> "ListU64"
      [] k = "f32"  -> "ListF32"
      [] k = "f64"  -> "ListF64"
      [] OTHER      -> "ListI32"

\* get_numpy_types: element type name -> element type of PyArray1 /
\* PyReadonlyArray1 (i32 otherwise)
get_numpy_types(k) == IF k \in Kinds THEN k ELSE "i32"

\* define_list_type!(ListX, x, ...): the element type of each container type
ListElem(ty) ==
    CASE ty = "ListBool" -> "bool"
      [] ty = "ListI8"   -> "i8"
      [] ty = "ListI16"  -> "i16"
      [] ty = "ListI32"  -> "i32"
      [] ty = "ListI64"  -> "i64"
      [] ty = "ListU8"   -> "u8"
      [] ty = "ListU16"  -> "u16"
      [] ty = "ListU32"  -> "u32"
      [] ty = "ListU64"  -> "u64"
      [] ty = "ListF32"  -> "f32"
      [] ty = "ListF64"  -> "f64"

ListTypes == {"ListBool", "ListI8", "ListI16", "ListI32", "ListI64", "ListU8",
              "ListU16", "ListU32", "ListU64", "ListF32", "ListF64"}

----------------------------------------------------------------------------
(* Values of the host and of the call record. *)

\* $name::new(inner): a container object
ListNew(ty, inner) == [ty |-> ty, inner |-> inner]

\* What the host passes where a container is expected: nothing (None), a
\* container object, or any other object.
NoneArg  == [k |-> "none", ty |-> "-", inner |-> <<>>, contig |-> TRUE]
ListArg(c) == [k |-> "list", ty |-> c.ty, inner |-> c.inner, contig |-> TRUE]
\* A one-dimensional numpy array of element type ty; contig is FALSE for a
\* strided view (neither C- nor F-contiguous).
ArrayArg(ty, data, contig) == [k |-> "array", ty |-> ty, inner |-> data, contig |-> contig]
OtherArg == [k |-> "other", ty |-> "-", inner |-> <<>>, contig |-> TRUE]

\* The outcome kinds of a call.
OK            == "ok"
IndexError    == "IndexError: Index out of range"
OverflowError == "OverflowError"
ExtractError  == "TypeError: argument conversion"
NotContiguous == "TypeError: NotContiguousError"
FromVecError  == "TypeError: FromVecError"
Panic         == "PanicException"

\* The record of a call: the operation, the field and the container before
\* it, the argument, the index and value of an index operation, what was
\* returned (ret, of type rty) and the outcome.
Call(op, arg, idx, val, ret, rty, res) ==
    [op |-> op, pre |-> field, lpre |-> list.inner, arg |-> arg, idx |-> idx,
     val |-> val, ret |-> ret, rty |-> rty, res |-> res]

NoCall == [op |-> "new", pre |-> <<>>, lpre |-> <<>>, arg |-> NoneArg, idx |-> 0,
           val |-> 0, ret |-> <<>>, rty |-> "-", res |-> OK]

----------------------------------------------------------------------------
(* Arguments the host can pass. *)

\* The kind after k in the order of the tables, the last followed by the first
OtherKind(k) ==
    CASE k = "bool" -> "i8"  [] k = "i8"  -> "i16" [] k = "i16" -> "i32"
      [] k = "i32"  -> "i64" [] k = "i64" -> "u8"  [] k = "u8"  -> "u16"
      [] k = "u16"  -> "u32" [] k = "u32" -> "u64" [] k = "u64" -> "f32"
      [] k = "f32"  -> "f64" [] k = "f64" -> "bool"

\* What the host can pass where a container is expected: None, an object
\* that is no container, the container it holds, or a fresh container of
\* another container type.
ContainerArgs ==
    {NoneArg, OtherArg, ListArg(list),
     ListArg(ListNew(get_type_info(OtherKind(kind)), <<1>>))}

\* What the host can pass where an array is expected: None, an object that
\* is no array, a one-dimensional array of the field's element type
\* (contiguous, or a strided view of at least two elements), or an array of
\* another element type.
ArrayArgs ==
    {NoneArg, OtherArg, ArrayArg(OtherKind(kind), <<1>>, TRUE)}
      \cup {ArrayArg(get_numpy_types(kind), s, TRUE) : s \in SeqsUpTo(Elems, MaxLen)}
      \cup {ArrayArg(get_numpy_types(kind), s, FALSE) :
                s \in {t \in SeqsUpTo(Elems, MaxLen) : Len(t) >= 2}}

\* pyo3's conversion of an argument to ::py_vec_types::ListX (a clone of the
\* container object): only a container of exactly that type converts.
ExtractsAsList(a, ty) == a.k = "list" /\ a.ty = ty

\* pyo3's conversion of an argument to Option<PyReadonlyArray1<T>>: None, or
\* an array of element type T.
ExtractsAsArray(a, k) == a.k = "none" \/ (a.k = "array" /\ a.ty = k)

----------------------------------------------------------------------------
(* The accessors generated for a Vec<T> field (ImplPyVecAccessors). *)

\* Get_<field>: ListX::new(self.field.clone())
MutGet_moves(bind) ==
    LET c == ListNew(get_type_info(kind), field)
    IN  /\ field' = <<>>
        /\ list' = IF bind THEN c ELSE list
        /\ last' = Call("Get_", NoneArg, 0, 0, c.inner, c.ty, OK)
        /\ UNCHANGED <<kind, rt, matrix, mlast, gen, heap, proc>>

Get_field(bind) ==
    LET c == ListNew(get_type_info(kind), field)
    IN  /\ field' = field
        /\ list' = IF bind THEN c ELSE list
        /\ last' = Call("Get_", NoneArg, 0, 0, c.inner, c.ty, OK)
        /\ UNCHANGED <<kind, rt, matrix, mlast, gen, heap, proc>>

\* Take_<field>: data = mem::replace(&mut self.field, vec![]); ListX::new(data)
MutTake_copies(bind) ==
    LET c == ListNew(get_type_info(kind), field)
    IN  /\ field' = field
        /\ list' = IF bind THEN c ELSE list
        /\ last' = Call("Take_", NoneArg, 0, 0, c.inner, c.ty, OK)
        /\ UNCHANGED <<kind, rt, matrix, mlast, gen, heap, proc>>

\* Take_<field> emptying the nested field of the instance as well
MutTake_all(bind) ==
    LET data == field
        c    == ListNew(get_type_info(kind), data)
    IN  /\ field' = <<>>
        /\ matrix' = <<>>
        /\ list' = IF bind THEN c ELSE list
        /\ last' = Call("Take_", NoneArg, 0, 0, c.inner, c.ty, OK)
        /\ UNCHANGED <<kind, rt, mlast, gen, heap, proc>>

Take_field(bind) ==
    LET data == field
        c    == ListNew(get_type_info(kind), data)
    IN  /\ field' = <<>>
        /\ list' = IF bind THEN c ELSE list
        /\ last' = Call("Take_", NoneArg, 0, 0, c.inner, c.ty, OK)
        /\ UNCHANGED <<kind, rt, matrix, mlast, gen, heap, proc>>

\* Replace_<field>(val): new_val = extract(&val)?;
\* data = mem::replace(&mut self.field, new_val.into_vec()); Ok(ListX::new(data))
MutReplace_returns_new(a, bind) ==
    IF ExtractsAsList(a, get_type_info(kind))
    THEN LET c == ListNew(get_type_info(kind), a.inner)
         IN  /\ field' = a.inner
             /\ list' = IF bind THEN c ELSE list
             /\ last' = Call("Replace_", a, 0, 0, c.inner, c.ty, OK)
             /\ UNCHANGED <<kind, rt, matrix, mlast, gen, heap, proc>>
    ELSE /\ last' = Call("Replace_", a, 0, 0, <<>>, "-", ExtractError)
         /\ UNCHANGED <<kind, field, list, rt, matrix, mlast, gen, heap, proc>>

Replace_field(a, bind) ==
    IF ExtractsAsList(a, get_type_info(kind))
    THEN LET data == field
             c    == ListNew(get_type_info(kind), data)
         IN  /\ field' = a.inner
             /\ list' = IF bind THEN c ELSE list
             /\ last' = Call("Replace_", a, 0, 0, c.inner, c.ty, OK)
             /\ UNCHANGED <<kind, rt, matrix, mlast, gen, heap, proc>>
    ELSE /\ last' = Call("Replace_", a, 0, 0, <<>>, "-", ExtractError)
         /\ UNCHANGED <<kind, field, list, rt, matrix, mlast, gen, heap, proc>>

\* Set_<field>(list: ListX): self.field = list.into_vec().  The parameter is
\* a clone of the host's container, made by the argument conversion.
MutSet_drains_argument(a) ==
    IF ExtractsAsList(a, get_type_info(kind))
    THEN /\ field' = a.inner
         /\ list' = IF a = ListArg(list) THEN ListNew(list.ty, <<>>) ELSE list
         /\ last' = Call("Set_", a, 0, 0, <<>>, "-", OK)
         /\ UNCHANGED <<kind, rt, matrix, mlast, gen, heap, proc>>
    ELSE /\ last' = Call("Set_", a, 0, 0, <<>>, "-", ExtractError)
         /\ UNCHANGED <<kind, field, list, rt, matrix, mlast, gen, heap, proc>>

Set_field(a) ==
    IF ExtractsAsList(a, get_type_info(kind))
    THEN /\ field' = a.inner
         /\ last' = Call("Set_", a, 0, 0, <<>>, "-", OK)
         /\ UNCHANGED <<kind, list, rt, matrix, mlast, gen, heap, proc>>
    ELSE /\ last' = Call("Set_", a, 0, 0, <<>>, "-", ExtractError)
         /\ UNCHANGED <<kind, field, list, rt, matrix, mlast, gen, heap, proc>>

----------------------------------------------------------------------------
(* replace_<field> generated for a Vec<T> field (ImplPyZeroCopy). *)

\* PyReadonlyArray1::to_vec: the elements in order, or NotContiguousError
\* for a strided view
to_vec(a) == IF a.contig THEN [res |-> OK, vec |-> a.inner]
             ELSE [res |-> NotContiguous, vec |-> <<>>]

\* replace_<field>(src=None): src = match src { None => vec![], Some(src) =>
\* src.to_vec()? }; contents = mem::replace(&mut self.field, src);
\* Ok(PyArray1::from_vec(py, contents))
replace_field(a) ==
    IF ~ExtractsAsArray(a, get_numpy_types(kind))
    THEN /\ last' = Call("replace_", a, 0, 0, <<>>, "-", ExtractError)
         /\ UNCHANGED <<kind, field, list, rt, matrix, mlast, gen, heap, proc>>
    ELSE LET src == IF a.k = "none" THEN [res |-> OK, vec |-> <<>>] ELSE to_vec(a)
         IN  IF src.res # OK
             THEN /\ last' = Call("replace_", a, 0, 0, <<>>, "-", src.res)
                  /\ UNCHANGED <<kind, field, list, rt, matrix, mlast, gen, heap, proc>>
             ELSE LET contents == field
                  IN  /\ field' = src.vec
                      /\ last' = Call("replace_", a, 0, 0, contents,
                                      get_numpy_types(kind), OK)
                      /\ UNCHANGED <<kind, list, rt, matrix, mlast, gen, heap, proc>>

----------------------------------------------------------------------------
(* Conversions between host values and elements (pyo3's FromPyObject and  *)
(* IntoPyObject for bool, the integer types and the float types).         *)

\* A host value: a Python bool, int or float.  Floats of the model are
\* integer-valued.  An element of a container is the integer it denotes.
HostVal(tag, val) == [tag |-> tag, val |-> val]

IsBool(k)  == k = "bool"
IsFloat(k) == k \in {"f32", "f64"}
IsInt(k)   == k \in Kinds /\ ~IsBool(k) /\ ~IsFloat(k)

\* The values of an integer type.  Every integer of the model lies within
\* i32, i64 and below the upper ends of u32 and u64.
InRange(k, v) ==
    CASE k = "i8"  -> v >= -128 /\ v <= 127
      [] k = "i16" -> v >= -32768 /\ v <= 32767
      [] k = "i32" -> v >= -2147483647 - 1 /\ v <= 2147483647
      [] k = "i64" -> TRUE
      [] k = "u8"  -> v >= 0 /\ v <= 255
      [] k = "u16" -> v >= 0 /\ v <= 65535
      [] k = "u32" -> v >= 0
      [] k = "u64" -> v >= 0

RECURSIVE Pow2(_)
Pow2(n) == IF n = 0 THEN 1 ELSE 2 * Pow2(n - 1)

RECURSIVE Log2(_)
\* floor(log2 n) for n >= 1
Log2(n) == IF n < 2 THEN 0 ELSE 1 + Log2(n \div 2)

Abs(v) == IF v < 0 THEN -v ELSE v

\* `as f32` of an integer-valued f64: 24 significant bits, round to nearest,
\* ties to even
RoundF32(v) ==
    LET a   == Abs(v)
        e   == Log2(IF a = 0 THEN 1 ELSE a)
        ulp == IF e < 24 THEN 1 ELSE Pow2(e - 23)
        q   == a \div ulp
        r   == a % ulp
        up  == 2 * r > ulp \/ (2 * r = ulp /\ q % 2 = 1)
        m   == (IF up THEN q + 1 ELSE q) * ulp
    IN  IF v < 0 THEN -m ELSE m

\* extract::<T>() of one host value
ExtractElem(k, h) ==
    CASE IsBool(k)  -> IF h.tag = "bool" THEN [res |-> OK, val |-> h.val]
                       ELSE [res |-> ExtractError, val |-> 0]
      [] IsInt(k)   -> IF h.tag = "float" THEN [res |-> ExtractError, val |-> 0]
                       ELSE IF InRange(k, h.val) THEN [res |-> OK, val |-> h.val]
                       ELSE [res |-> OverflowError, val |-> 0]
      [] k = "f32"  -> [res |-> OK, val |-> RoundF32(h.val)]
      [] k = "f64"  -> [res |-> OK, val |-> h.val]

\* the host value an element of kind k is exported as
IntoPy(k, v) ==
    HostVal(IF IsBool(k) THEN "bool" ELSE IF IsFloat(k) THEN "float" ELSE "int", v)

\* Python's == on numbers: True == 1 == 1.0
HostEq(a, b) == a.val = b.val

HostSeqEq(s, t) == Len(s) = Len(t) /\ \A i \in 1..Len(s) : HostEq(s[i], t[i])

RECURSIVE ExtractVec(_, _)
\* extract::<Vec<T>>() of a host sequence: element by element, the first
\* failure ends it
ExtractVec(k, hs) ==
    IF hs = <<>> THEN [res |-> OK, vec |-> <<>>]
    ELSE LET h == ExtractElem(k, Head(hs))
         IN  IF h.res # OK THEN [res |-> h.res, vec |-> <<>>]
             ELSE LET t == ExtractVec(k, Tail(hs))
                  IN  IF t.res # OK THEN t
                      ELSE [res |-> OK, vec |-> <<h.val>> \o t.vec]

----------------------------------------------------------------------------
(* The operations of a container (define_list_type!). *)

\* new_py(obj): both branches extract a Vec<T> from the host sequence
new_py(ty, hs) == ExtractVec(ListElem(ty), hs)

\* to_list exporting the elements last to first
MutTo_list_reversed(ty, inner) ==
    [i \in 1..Len(inner) |-> IntoPy(ListElem(ty), inner[Len(inner) + 1 - i])]

\* to_list: PyList::new(py, &self.inner)
to_list(ty, inner) == [i \in 1..Len(inner) |-> IntoPy(ListElem(ty), inner[i])]

\* Indices the host passes to an index operation (Python ints)
Indices == -1 .. (MaxLen + 1)

\* pyo3's conversion of a Python int to usize: a negative int is refused
extract_usize(i) == IF i < 0 THEN [res |-> OverflowError, index |-> 0]
                    ELSE [res |-> OK, index |-> i]

\* Vec::remove(index) and Vec::insert(index, v), index counted from 0
RemoveAt(v, index) == SubSeq(v, 1, index) \o SubSeq(v, index + 2, Len(v))
InsertAt(v, index, x) == SubSeq(v, 1, index) \o <<x>> \o SubSeq(v, index + 1, Len(v))

\* a container call that returns without touching the container
ListCall(op, idx, val, ret, rty, res) ==
    /\ last' = Call(op, NoneArg, idx, val, ret, rty, res)
    /\ UNCHANGED <<kind, field, list, rt, matrix, mlast, gen, heap, proc>>

\* a container call that leaves the container holding inner
ListUpdate(op, idx, val, ret, rty, inner) ==
    /\ list' = ListNew(list.ty, inner)
    /\ last' = Call(op, NoneArg, idx, val, ret, rty, OK)
    /\ UNCHANGED <<kind, field, rt, matrix, mlast, gen, heap, proc>>

\* ListX(obj) called by the host, which keeps the new container
new_py_call(s) ==
    LET ty == get_type_info(kind)
        hs == [i \in 1..Len(s) |-> IntoPy(ListElem(ty), s[i])]
        r  == new_py(ty, hs)
    IN  /\ r.res = OK
        /\ list' = ListNew(ty, r.vec)
        /\ last' = Call("new_py", NoneArg, 0, 0, r.vec, ty, OK)
        /\ UNCHANGED <<kind, field, rt, matrix, mlast, gen, heap, proc>>

\* append: self.inner.push(item)
append(item) ==
    /\ Len(list.inner) < MaxLen
    /\ ListUpdate("append", 0, item, <<>>, "-", Append(list.inner, item))

\* __len__: self.inner.len()
py_len == ListCall("__len__", 0, 0, <<Len(list.inner)>>, "usize", OK)

\* __getitem__ clamping an index beyond the end to the last element
MutGetitem_clamps(i) ==
    LET u == extract_usize(i)
        n == Len(list.inner)
    IN  IF u.res # OK THEN ListCall("__getitem__", i, 0, <<>>, "-", u.res)
        ELSE IF n > 0
             THEN ListCall("__getitem__", i, 0,
                           <<list.inner[IF u.index < n THEN u.index + 1 ELSE n]>>,
                           ListElem(list.ty), OK)
             ELSE ListCall("__getitem__", i, 0, <<>>, "-", IndexError)

\* __getitem__: self.inner.get(index).copied().ok_or_else(IndexError)
getitem(i) ==
    LET u == extract_usize(i)
    IN  IF u.res # OK THEN ListCall("__getitem__", i, 0, <<>>, "-", u.res)
        ELSE IF u.index < Len(list.inner)
             THEN ListCall("__getitem__", i, 0, <<list.inner[u.index + 1]>>,
                           ListElem(list.ty), OK)
             ELSE ListCall("__getitem__", i, 0, <<>>, "-", IndexError)

\* __setitem__ growing the container by the value when the index is out of
\* range, before it reports the error
MutSetitem_grows(i, value) ==
    LET u == extract_usize(i)
    IN  IF u.res # OK THEN ListCall("__setitem__", i, value, <<>>, "-", u.res)
        ELSE IF u.index < Len(list.inner)
             THEN ListUpdate("__setitem__", i, value, <<>>, "-",
                             [list.inner EXCEPT ![u.index + 1] = value])
             ELSE /\ Len(list.inner) < MaxLen
                  /\ list' = ListNew(list.ty, Append(list.inner, value))
                  /\ last' = Call("__setitem__", NoneArg, i, value, <<>>, "-", IndexError)
                  /\ UNCHANGED <<kind, field, rt, matrix, mlast, gen, heap, proc>>

\* __setitem__: if let Some(elem) = self.inner.get_mut(index) { *elem = value }
setitem(i, value) ==
    LET u == extract_usize(i)
    IN  IF u.res # OK THEN ListCall("__setitem__", i, value, <<>>, "-", u.res)
        ELSE IF u.index < Len(list.inner)
             THEN ListUpdate("__setitem__", i, value, <<>>, "-",
                             [list.inner EXCEPT ![u.index + 1] = value])
             ELSE ListCall("__setitem__", i, value, <<>>, "-", IndexError)

\* remove returning the element and leaving it in the container
MutRemove_keeps(i) ==
    LET u == extract_usize(i)
    IN  IF u.res # OK THEN ListCall("remove", i, 0, <<>>, "-", u.res)
        ELSE IF u.index < Len(list.inner)
             THEN ListUpdate("remove", i, 0, <<list.inner[u.index + 1]>>,
                             ListElem(list.ty), list.inner)
             ELSE ListCall("remove", i, 0, <<>>, "-", IndexError)

\* remove: if index < self.inner.len() { Ok(self.inner.remove(index)) }
remove(i) ==
    LET u == extract_usize(i)
    IN  IF u.res # OK THEN ListCall("remove", i, 0, <<>>, "-", u.res)
        ELSE IF u.index < Len(list.inner)
             THEN ListUpdate("remove", i, 0, <<list.inner[u.index + 1]>>,
                             ListElem(list.ty), RemoveAt(list.inner, u.index))
             ELSE ListCall("remove", i, 0, <<>>, "-", IndexError)

\* insert putting the value at the end whatever the index (Vec::push)
MutInsert_appends(i, value) ==
    LET u == extract_usize(i)
    IN  IF u.res # OK THEN ListCall("insert", i, value, <<>>, "-", u.res)
        ELSE IF u.index <= Len(list.inner)
             THEN /\ Len(list.inner) < MaxLen
                  /\ ListUpdate("insert", i, value, <<>>, "-", Append(list.inner, value))
             ELSE ListCall("insert", i, value, <<>>, "-", IndexError)

\* insert refusing the index equal to the length
MutInsert_strict(i, value) ==
    LET u == extract_usize(i)
    IN  IF u.res # OK THEN ListCall("insert", i, value, <<>>, "-", u.res)
        ELSE IF u.index < Len(list.inner)
             THEN /\ Len(list.inner) < MaxLen
                  /\ ListUpdate("insert", i, value, <<>>, "-",
                                InsertAt(list.inner, u.index, value))
             ELSE ListCall("insert", i, value, <<>>, "-", IndexError)

\* insert: if index <= self.inner.len() { self.inner.insert(index, value) }
insert(i, value) ==
    LET u == extract_usize(i)
    IN  IF u.res # OK THEN ListCall("insert", i, value, <<>>, "-", u.res)
        ELSE IF u.index <= Len(list.inner)
             THEN /\ Len(list.inner) < MaxLen
                  /\ ListUpdate("insert", i, value, <<>>, "-",
                                InsertAt(list.inner, u.index, value))
             ELSE ListCall("insert", i, value, <<>>, "-", IndexError)

\* to_list called on the host's container
to_list_call ==
    ListCall("to_list", 0, 0,
             [i \in 1..Len(list.inner) |-> to_list(list.ty, list.inner)[i].val],
             "list", OK)

\* to_array: PyArray1::from_vec(py, self.inner.clone())
to_array == ListCall("to_array", 0, 0, list.inner, ListElem(list.ty), OK)

\* into_array cloning the elements as to_array does
MutInto_array_copies ==
    ListUpdate("into_array", 0, 0, list.inner, ListElem(list.ty), list.inner)

\* into_array: PyArray1::from_vec(py, mem::take(&mut self.inner))
into_array ==
    ListUpdate("into_array", 0, 0, list.inner, ListElem(list.ty), <<>>)

\* clear: self.inner.clear()
clear == ListUpdate("clear", 0, 0, <<>>, "-", <<>>)

\* copy: self.clone(); the host keeps the copy or drops it
copy(bind) ==
    LET c == ListNew(list.ty, list.inner)
    IN  /\ list' = IF bind THEN c ELSE list
        /\ last' = Call("copy", NoneArg, 0, 0, c.inner, c.ty, OK)
        /\ UNCHANGED <<kind, field, rt, matrix, mlast, gen, heap, proc>>

----------------------------------------------------------------------------
(* The specification of one struct instance and one container. *)

\* the idle values of the round-trip and byte-matrix machines
RtIdle == [stage |-> "idle", ty |-> "-", src |-> <<>>, inner |-> <<>>,
           out |-> <<>>, res |-> OK]

\* no derive macro is being expanded / no heap of host objects is modelled
GenIdle == [stage |-> "idle"]
HeapIdle == [stage |-> "idle"]
ProcIdle == [stage |-> "idle"]

NoMCall == [op |-> "new", src |-> [k |-> "none", rows |-> 0, cols |-> 0, order |-> "C"],
            pre |-> <<>>, ret |-> <<>>, res |-> OK]

\* The struct is constructed with any contents of its field; the host holds
\* a container of the field's container type with any contents.
Init ==
    /\ kind \in Kinds
    /\ field \in SeqsUpTo(Elems, MaxLen)
    /\ list \in {ListNew(get_type_info(kind), s) : s \in SeqsUpTo(Elems, MaxLen)}
    /\ last = NoCall
    /\ rt = RtIdle
    /\ matrix = <<>>
    /\ mlast = NoMCall
    /\ proc = ProcIdle
    /\ gen = GenIdle
    /\ heap = HeapIdle

AccessorCall ==
    \/ \E bind \in BOOLEAN : Get_field(bind)
    \/ \E bind \in BOOLEAN : Take_field(bind)
    \/ \E a \in ContainerArgs, bind \in BOOLEAN : Replace_field(a, bind)
    \/ \E a \in ContainerArgs : Set_field(a)
    \/ \E a \in ArrayArgs : replace_field(a)

\* what the host does to the container it holds between accessor calls
HeldContainerCall ==
    \/ \E item \in Elems : append(item)
    \/ \E i \in Indices, v \in Elems : setitem(i, v)
    \/ into_array
    \/ clear

Next == AccessorCall \/ HeldContainerCall

Spec == Init /\ [][Next]_vars

----------------------------------------------------------------------------
(* The specification of one container of any of the eleven types. *)

InitContainer ==
    /\ kind \in Kinds
    /\ field = <<>>
    /\ list = ListNew(get_type_info(kind), <<>>)
    /\ last = NoCall
    /\ rt = RtIdle
    /\ matrix = <<>>
    /\ mlast = NoMCall
    /\ proc = ProcIdle
    /\ gen = GenIdle
    /\ heap = HeapIdle

NextContainer ==
    \/ \E s \in SeqsUpTo(Elems, MaxLen) : new_py_call(s)
    \/ \E item \in Elems : append(item)
    \/ py_len
    \/ \E i \in Indices : getitem(i)
    \/ \E i \in Indices, v \in Elems : setitem(i, v)
    \/ \E i \in Indices : remove(i)
    \/ \E i \in Indices, v \in Elems : insert(i, v)
    \/ to_list_call
    \/ to_array
    \/ into_array
    \/ clear
    \/ \E bind \in BOOLEAN : copy(bind)

SpecContainer == InitContainer /\ [][NextContainer]_vars

----------------------------------------------------------------------------
(* Round trip: a container constructed from a host sequence and exported  *)
(* back with to_list.                                                     *)

\* Host values the round trip is tried on: a bool, ints at and beyond the
\* ends of the narrow integer types, floats with and without an exact f32
HostSamples ==
    {HostVal("bool", 1), HostVal("int", -1), HostVal("int", 1), HostVal("int", 128),
     HostVal("int", 256), HostVal("int", 65536), HostVal("float", 1),
     HostVal("float", 16777217)}

InitRoundTrip ==
    /\ kind \in Kinds
    /\ field = <<>>
    /\ list = ListNew(get_type_info(kind), <<>>)
    /\ last = NoCall
    /\ rt \in {[stage |-> "input", ty |-> get_type_info(kind), src |-> hs,
                inner |-> <<>>, out |-> <<>>, res |-> OK] :
                   hs \in SeqsUpTo(HostSamples, MaxLen)}
    /\ matrix = <<>>
    /\ mlast = NoMCall
    /\ proc = ProcIdle
    /\ gen = GenIdle
    /\ heap = HeapIdle

\* c = ListX(src)
RtNew ==
    /\ rt.stage = "input"
    /\ LET r == new_py(rt.ty, rt.src)
       IN  rt' = [rt EXCEPT !.stage = "built", !.inner = r.vec, !.res = r.res]
    /\ UNCHANGED <<kind, field, list, last, matrix, mlast, gen, heap, proc>>

\* c.to_list()
RtToList ==
    /\ rt.stage = "built"
    /\ rt.res = OK
    /\ rt' = [rt EXCEPT !.stage = "exported", !.out = to_list(rt.ty, rt.inner)]
    /\ UNCHANGED <<kind, field, list, last, matrix, mlast, gen, heap, proc>>

NextRoundTrip == RtNew \/ RtToList

SpecRoundTrip == InitRoundTrip /\ [][NextRoundTrip]_vars

----------------------------------------------------------------------------
(* replace_<field> generated for the Vec<Vec<u8>> field (ImplPyZeroCopy). *)

\* A two-dimensional u8 array of the host with rows x cols elements, its
\* element in row i and column j (from 1) being the byte Cell(i, j, cols),
\* so that all its elements differ.  order is its memory layout: "C"
\* (row-major), "F" (column-major) or "strided" (a view that is neither).
Array2(rows, cols, order) == [k |-> "array2", rows |-> rows, cols |-> cols, order |-> order]
NoneSrc   == [k |-> "none", rows |-> 0, cols |-> 0, order |-> "C"]
\* a nested list with rows of unequal length (or an object array of them)
RaggedSrc == [k |-> "ragged", rows |-> 2, cols |-> 0, order |-> "C"]
\* an object that is no array, or an array that is not 2-dimensional u8
OtherSrc  == [k |-> "other", rows |-> 0, cols |-> 0, order |-> "C"]

Cell(i, j, cols) == (i - 1) * cols + j

\* the rows of the array as the host sees them
LogicalRows(src) ==
    [i \in 1..src.rows |-> [j \in 1..src.cols |-> Cell(i, j, src.cols)]]

\* PyReadonlyArray2::as_slice: the elements in memory order when the array
\* is C- or F-contiguous, NotContiguousError otherwise
as_slice(src) ==
    LET n == src.rows * src.cols
    IN  CASE src.order = "C" ->
               [res |-> OK,
                vec |-> [m \in 1..n |-> Cell(((m - 1) \div src.cols) + 1,
                                             ((m - 1) % src.cols) + 1, src.cols)]]
          [] src.order = "F" ->
               [res |-> OK,
                vec |-> [m \in 1..n |-> Cell(((m - 1) % src.rows) + 1,
                                             ((m - 1) \div src.rows) + 1, src.cols)]]
          [] OTHER -> [res |-> NotContiguous, vec |-> <<>>]

\* a.chunks_exact(n).map(|chunk| chunk.to_vec()).collect(), for n > 0: the
\* whole chunks of n elements, a shorter rest left out
chunks_exact(a, n) ==
    [i \in 1..(Len(a) \div n) |-> SubSeq(a, (i - 1) * n + 1, i * n)]

\* PyArray2::from_vec2: the rows as an array, or FromVecError when a row is
\* not as long as the first
from_vec2(v) ==
    IF \A i \in 1..Len(v) : Len(v[i]) = Len(v[1])
    THEN [res |-> OK, rows |-> v]
    ELSE [res |-> FromVecError, rows |-> <<>>]

MCall(src, ret, res) ==
    [op |-> "replace_", src |-> src, pre |-> matrix, ret |-> ret, res |-> res]

\* replace_<field>(src=None) of the nested field
replace_matrix(src) ==
    IF src.k \notin {"none", "array2"}
    THEN /\ mlast' = MCall(src, <<>>, ExtractError)
         /\ UNCHANGED <<kind, field, list, last, rt, matrix, gen, heap, proc>>
    ELSE LET num_cols == src.cols
             a        == IF src.k = "none" THEN [res |-> OK, vec |-> <<>>]
                         ELSE as_slice(src)
         IN  IF a.res # OK
             THEN /\ mlast' = MCall(src, <<>>, a.res)
                  /\ UNCHANGED <<kind, field, list, last, rt, matrix, gen, heap, proc>>
             ELSE IF src.k = "array2" /\ num_cols = 0
             THEN \* chunks_exact(0) panics
                  /\ mlast' = MCall(src, <<>>, Panic)
                  /\ UNCHANGED <<kind, field, list, last, rt, matrix, gen, heap, proc>>
             ELSE LET new      == IF src.k = "none" THEN <<>>
                                  ELSE chunks_exact(a.vec, num_cols)
                      contents == matrix
                      out      == from_vec2(contents)
                  IN  /\ matrix' = new
                      /\ mlast' = MCall(src, out.rows, out.res)
                      /\ UNCHANGED <<kind, field, list, last, rt, gen, heap, proc>>

\* Buffers the host can pass to the nested replace_<field>
MatrixSrcs ==
    {NoneSrc, RaggedSrc, OtherSrc}
      \cup {Array2(r, c, o) : r \in 0..MaxRows, c \in 0..MaxCols, o \in {"C", "F"}}
      \cup {Array2(rc[1], rc[2], "strided") :
               rc \in {x \in (1..MaxRows) \X (1..MaxCols) : x[1] * x[2] >= 2}}

\* The struct is constructed with any rows in its nested field, of equal
\* length or not.
MatrixInits == SeqsUpTo(SeqsUpTo({9}, 2), MaxRows)

InitMatrix ==
    /\ kind = "u8"
    /\ field = <<>>
    /\ list = ListNew(get_type_info(kind), <<>>)
    /\ last = NoCall
    /\ rt = RtIdle
    /\ matrix \in MatrixInits
    /\ mlast = NoMCall
    /\ proc = ProcIdle
    /\ gen = GenIdle
    /\ heap = HeapIdle

NextMatrix == \E src \in MatrixSrcs : replace_matrix(src)

SpecMatrix == InitMatrix /\ [][NextMatrix]_vars

----------------------------------------------------------------------------
(* Claims about the accessors of a Vec<T> field, checked under Spec. *)

\* the container type and the array element type generated for the field
FieldListType  == get_type_info(kind)
FieldArrayType == get_numpy_types(kind)

\* C1: for every numeric kind and every field content s, Get_<field>
\* returns a container of the field's container type equal to s and leaves
\* the field equal to s; two calls in a row return equal containers.
C1_GetReturnsCopy ==
    /\ [](last.op = "Get_" =>
            /\ last.res = OK
            /\ last.rty = FieldListType
            /\ last.ret = last.pre
            /\ field = last.pre)
    /\ [][(last.op = "Get_" /\ last'.op = "Get_") =>
            (last'.ret = last.ret /\ field' = field)]_vars

C1_Witness ==
    last.op = "Get_" /\ last.ret # <<>> /\ field = last.ret /\ list.inner = last.ret

\* C2: Take_<field> returns a container equal to the field's content s and
\* leaves the field empty; a Get_ or a second Take_ right after it returns
\* an empty container.
C2_TakeMovesOut ==
    /\ [](last.op = "Take_" =>
            /\ last.res = OK
            /\ last.rty = FieldListType
            /\ last.ret = last.pre
            /\ field = <<>>)
    /\ [][(last.op = "Take_" /\ last'.op \in {"Get_", "Take_"}) =>
            (last'.res = OK /\ last'.ret = <<>> /\ field' = <<>>)]_vars

C2_Witness ==
    last.op = "Take_" /\ last.pre # <<>> /\ last.ret = last.pre /\ field = <<>>

\* the argument of the last call holds a sequence the call can take: a
\* container of the field's container type (Replace_) or an array of the
\* field's element type (replace_)
ArgHoldsBuffer ==
    \/ last.op = "Replace_" /\ last.arg.k = "list" /\ last.arg.ty = FieldListType
    \/ last.op = "replace_" /\ last.arg.k = "array" /\ last.arg.ty = FieldArrayType

\* C3 as claimed: in both replace forms, a call with s2 on a field holding
\* s1 returns s1 and leaves the field holding s2, and a call with an absent
\* buffer returns s1 and leaves the field empty.
C3_AsClaimed ==
    last.op \in {"Replace_", "replace_"} =>
        /\ ArgHoldsBuffer =>
             (last.res = OK /\ last.ret = last.pre /\ field = last.arg.inner)
        /\ last.arg.k = "none" =>
             (last.res = OK /\ last.ret = last.pre /\ field = <<>>)

\* C3 as amended: Replace_<field> given a container holding s2, and
\* replace_<field> given a contiguous array holding s2, return s1 and leave
\* the field holding s2; replace_<field> without a buffer returns s1 and
\* leaves the field empty; Replace_<field> has no absent form (None fails
\* the argument conversion) and replace_<field> refuses a strided array,
\* both leaving the field holding s1.
C3_ReplaceSwaps ==
    /\ last.op = "Replace_" =>
         IF ArgHoldsBuffer
         THEN /\ last.res = OK
              /\ last.rty = FieldListType
              /\ last.ret = last.pre
              /\ field = last.arg.inner
         ELSE last.res = ExtractError /\ field = last.pre
    /\ last.op = "replace_" =>
         CASE last.arg.k = "none" ->
                /\ last.res = OK
                /\ last.rty = FieldArrayType
                /\ last.ret = last.pre
                /\ field = <<>>
           [] ArgHoldsBuffer /\ last.arg.contig ->
                /\ last.res = OK
                /\ last.rty = FieldArrayType
                /\ last.ret = last.pre
                /\ field = last.arg.inner
           [] ArgHoldsBuffer /\ ~last.arg.contig ->
                last.res = NotContiguous /\ field = last.pre
           [] OTHER -> last.res = ExtractError /\ field = last.pre

C3_Witness ==
    /\ last.op = "Replace_"
    /\ last.res = OK
    /\ last.pre # <<>>
    /\ last.arg.inner # <<>>
    /\ last.arg.inner # last.pre
    /\ field = last.arg.inner

\* the argument of the last call was the container the host holds
ArgWasHeld == last.arg.k = "list" /\ last.arg.ty = FieldListType

\* C4: Set_<field> called with container c leaves the field equal to the
\* contents of c and leaves c as it was; what the host then does to c
\* (append, __setitem__, into_array, clear) does not change the field.
C4_SetCopies ==
    /\ []((last.op = "Set_" /\ ArgWasHeld) =>
            /\ last.res = OK
            /\ field = last.arg.inner
            /\ list.inner = last.lpre
            /\ list.inner = last.arg.inner
            /\ list.ty = FieldListType)
    /\ [][(last'.op \in {"append", "__setitem__", "into_array", "clear"}) =>
            field' = field]_vars

C4_Witness ==
    /\ last.op = "Set_"
    /\ last.res = OK
    /\ last.arg.inner # <<>>
    /\ last.pre # last.arg.inner
    /\ field = last.arg.inner
    /\ list.inner = last.arg.inner

----------------------------------------------------------------------------
(* Claims about the containers. *)

\* an integer-valued float that `as f32` leaves as it is
ExactF32(v) ==
    LET a == Abs(v)
    IN  a < 16777216 \/ a % Pow2(Log2(a) - 23) = 0

\* C5 as claimed: for each container type and every host sequence s the
\* constructor accepts, to_list of the constructed container equals s.
C5_AsClaimed ==
    rt.stage = "exported" => HostSeqEq(rt.out, rt.src)

\* C5 as amended: for each of the eleven container types and every host
\* sequence s the constructor accepts, to_list of the constructed container
\* equals s in length, order and value, provided every element of s is
\* exactly representable in the element type (a ListF32 rounds any other
\* float to the nearest f32).  Checked under SpecRoundTrip.
C5_RoundTrip ==
    (/\ rt.stage = "exported"
     /\ ListElem(rt.ty) = "f32" => \A i \in 1..Len(rt.src) : ExactF32(rt.src[i].val))
        => HostSeqEq(rt.out, rt.src)

C5_Witness ==
    /\ rt.stage = "exported"
    /\ Len(rt.src) >= 2
    /\ rt.src[1].val # rt.src[2].val
    /\ HostSeqEq(rt.out, rt.src)

\* the length of the container before the last call
LenBefore == Len(last.lpre)

\* C6: on a container of length n, insert at index n succeeds and the value
\* becomes the last element, insert at an index above n fails, and remove,
\* __getitem__ and __setitem__ at index n fail with IndexError "Index out of
\* range".  Checked under SpecContainer.
C6_Boundary ==
    /\ (last.op = "insert" /\ last.idx = LenBefore) =>
          /\ last.res = OK
          /\ list.inner = Append(last.lpre, last.val)
          /\ list.inner[Len(list.inner)] = last.val
    /\ (last.op = "insert" /\ last.idx > LenBefore) =>
          (last.res # OK /\ list.inner = last.lpre)
    /\ (last.op \in {"remove", "__getitem__", "__setitem__"} /\ last.idx = LenBefore) =>
          (last.res = IndexError /\ list.inner = last.lpre)

C6_Witness ==
    /\ last.op = "insert"
    /\ LenBefore >= 1
    /\ last.idx = LenBefore
    /\ last.res = OK
    /\ Len(list.inner) = LenBefore + 1

IndexOps == {"__getitem__", "__setitem__", "remove", "insert"}

\* the index of the last index operation was outside the operation's range
IndexInvalid ==
    /\ last.op \in IndexOps
    /\ \/ last.idx < 0
       \/ last.op = "insert" /\ last.idx > LenBefore
       \/ last.op # "insert" /\ last.idx >= LenBefore

\* C7 as claimed: every index operation called with an index outside its
\* range fails with the out-of-range error (IndexError "Index out of range").
C7_AsClaimed == IndexInvalid => last.res = IndexError

\* C7 as amended: every index operation called with an index outside its
\* range fails and leaves the container as it was, addressing no element:
\* with IndexError "Index out of range" for an index at or beyond the
\* length (beyond it, for insert), with OverflowError from the conversion
\* of the argument to usize for a negative index.  Checked under
\* SpecContainer.
C7_InvalidIndexFails ==
    IndexInvalid =>
        /\ last.res = (IF last.idx < 0 THEN OverflowError ELSE IndexError)
        /\ last.ret = <<>>
        /\ list.inner = last.lpre

C7_Witness ==
    /\ last.op = "__getitem__"
    /\ last.idx = -1
    /\ last.lpre # <<>>
    /\ last.res = OverflowError

\* C8: into_array on a container holding s returns a buffer equal to s and
\* leaves the container empty; the container can be appended to afterwards,
\* and an append right after it leaves a container of length 1.  Checked
\* under SpecContainer.
C8_IntoArrayMoves ==
    /\ [](last.op = "into_array" =>
            /\ last.res = OK
            /\ last.rty = ListElem(list.ty)
            /\ last.ret = last.lpre
            /\ list.inner = <<>>
            /\ ENABLED append(1))
    /\ [][(last.op = "into_array" /\ last'.op = "append") =>
            (last'.res = OK /\ Len(list'.inner) = 1)]_vars

C8_Witness ==
    /\ last.op = "into_array"
    /\ last.lpre # <<>>
    /\ last.ret = last.lpre
    /\ list.inner = <<>>

----------------------------------------------------------------------------
(* Claims about replace_<field> of the byte matrix, under SpecMatrix. *)

\* C9 as claimed: every call that accepts a rectangular buffer of R rows
\* and C columns leaves in the field exactly the R rows of the buffer, row i
\* of the field being row i of the buffer.
C9_StoresRowsOfBuffer ==
    (mlast.op = "replace_" /\ mlast.src.k = "array2" /\ mlast.res = OK) =>
        /\ Len(matrix) = mlast.src.rows
        /\ \A i \in 1..Len(matrix) : Len(matrix[i]) = mlast.src.cols
        /\ matrix = LogicalRows(mlast.src)

C11_NeverPanics ==
    /\ last.res # Panic
    /\ mlast.res # Panic

----------------------------------------------------------------------------
(* Identifiers and to_snake_case. *)

\* An identifier is the sequence of its characters, each a one-character
\* string; "U+2102" stands for the double-struck capital C, an uppercase
\* letter (category Lu) that has no lowercase form, "U+0130" for the
\* capital I with dot above, whose lowercase mapping is the two characters
\* i and U+0307, and "U+01C5" for the titlecase letter Dz with caron, which
\* is not uppercase and has the lowercase form U+01C6.
\* char::is_uppercase
is_uppercase(ch) == ch \in {"A", "B", "C", "E", "P", "U+2102", "U+0130"}

\* char::to_lowercase: the characters of the lowercase mapping, the
\* character itself when it has none
to_lowercase(ch) ==
    CASE ch = "A" -> <<"a">>
      [] ch = "B" -> <<"b">>
      [] ch = "C" -> <<"c">>
      [] ch = "E" -> <<"e">>
      [] ch = "P" -> <<"p">>
      [] ch = "U+0130" -> <<"i", "U+0307">>
      [] ch = "U+01C5" -> <<"U+01C6">>
      [] OTHER    -> <<ch>>

\* the loop body of to_snake_case for one character, superseded variant:
\* the uppercase character is pushed as it is
MutPush_keeps_case(result, ch) ==
    IF is_uppercase(ch)
    THEN (IF result # <<>> THEN Append(result, "_") ELSE result) \o <<ch>>
    ELSE Append(result, ch)

\* the loop body of to_snake_case for one character
snake_push(result, ch) ==
    IF is_uppercase(ch)
    THEN \* result.push(ch.to_lowercase().next().unwrap())
         Append(IF result # <<>> THEN Append(result, "_") ELSE result,
                Head(to_lowercase(ch)))
    ELSE Append(result, ch)

RECURSIVE snake_loop(_, _)
snake_loop(chars, result) ==
    IF chars = <<>> THEN result
    ELSE snake_loop(Tail(chars), snake_push(result, Head(chars)))

to_snake_case(s) == snake_loop(s, <<>>)

----------------------------------------------------------------------------
(* The input of the derive macros: syn::DeriveInput. *)

\* syn::Type: a path of segments whose last one may carry generic
\* arguments (k = "path"), or a type that is no path, as [u8; 4] (k = "array")
TypePath(segs, args) == [k |-> "path", segs |-> segs, args |-> args]
Scalar(name)      == TypePath(<<name>>, <<>>)
VecOf(inner)      == TypePath(<<"Vec">>, <<inner>>)
\* None of Option<Type>
NoType            == [k |-> "none", segs |-> <<>>, args |-> <<>>]

LastSegment(ty) == ty.segs[Len(ty.segs)]

\* extract_vec_inner_type: the T of Vec<T> or of ...::alloc::vec::Vec<T>
extract_vec_inner_type(ty) ==
    LET segments == ty.segs
        n        == Len(segments)
    IN  IF ty.k # "path" THEN NoType
        ELSE IF n = 1 /\ segments[n] = "Vec" /\ ty.args # <<>> THEN ty.args[1]
        ELSE IF /\ n >= 3
                /\ segments[n] = "Vec"
                /\ segments[n - 1] = "vec"
                /\ segments[n - 2] = "alloc"
                /\ ty.args # <<>>
             THEN ty.args[1]
        ELSE NoType

\* is_supported_numeric_type: the last path segment names a numeric kind
is_supported_numeric_type(ty) ==
    /\ ty.k = "path"
    /\ ty.segs # <<>>
    /\ LastSegment(ty) \in Kinds

\* syn::Field and syn::Fields (Named, Unnamed, Unit); an unnamed field has
\* no ident
Field(name, ty) == [name |-> name, ty |-> ty]
Fields(style, l) == [style |-> style, list |-> l]
FieldsUnit == Fields("unit", <<>>)

Variant(name, fields) == [name |-> name, fields |-> fields]

\* syn::Data: Data::Struct with its fields, Data::Enum with its variants,
\* Data::Union
Data(shape, fields, variants) ==
    [shape |-> shape, fields |-> fields, variants |-> variants]

----------------------------------------------------------------------------
(* The output of the derive macros: the methods of the #[pymethods] impl. *)

Param(name, ty, required) == [name |-> name, ty |-> ty, required |-> required]

\* what a method evaluates to: Self { f: p, ... } ("struct"), Self::V or
\* Self::V(value) ("variant"), or an accessor of a field (its prefix)
Body(k, of, init) == [k |-> k, of |-> of, init |-> init]

Method(derive, name, deco, params, ret, body) ==
    [derive |-> derive, name |-> name, deco |-> deco, params |-> params,
     ret |-> ret, body |-> body]

RECURSIVE Flatten(_)
Flatten(ss) == IF ss = <<>> THEN <<>> ELSE Head(ss) \o Flatten(Tail(ss))

\* the names the macros write into the methods: __new__, the parameters
\* value, src, val and list, and the prefixes of the accessors
Name(s) ==
    CASE s = "__new__"  -> <<"_", "_", "n", "e", "w", "_", "_">>
      [] s = "value"    -> <<"v", "a", "l", "u", "e">>
      [] s = "src"      -> <<"s", "r", "c">>
      [] s = "val"      -> <<"v", "a", "l">>
      [] s = "list"     -> <<"l", "i", "s", "t">>
      [] s = "Get_"     -> <<"G", "e", "t", "_">>
      [] s = "Set_"     -> <<"S", "e", "t", "_">>
      [] s = "Take_"    -> <<"T", "a", "k", "e", "_">>
      [] s = "Replace_" -> <<"R", "e", "p", "l", "a", "c", "e", "_">>
      [] s = "replace_" -> <<"r", "e", "p", "l", "a", "c", "e", "_">>

\* generate_struct_impl, superseded variant: the parameters in reverse order
MutStruct_reversed(fields) ==
    LET field_info == IF fields.style = "named" THEN fields.list ELSE <<>>
        n == Len(field_info)
    IN  <<Method("ImplPyNew", Name("__new__"), "new",
                 [i \in 1..n |-> Param(field_info[n + 1 - i].name,
                                        field_info[n + 1 - i].ty, TRUE)],
                 Scalar("Self"),
                 Body("struct", <<>>,
                      [i \in 1..n |-> <<field_info[i].name, field_info[i].name>>]))>>

\* generate_struct_impl: #[new] #[pyo3(signature=(f1, ..))]
\* fn __new__(f1: T1, ..) -> Self { Self { f1: f1, .. } }
generate_struct_impl(fields) ==
    LET field_info == IF fields.style = "named" THEN fields.list ELSE <<>>
        n == Len(field_info)
    IN  <<Method("ImplPyNew", Name("__new__"), "new",
                 [i \in 1..n |-> Param(field_info[i].name, field_info[i].ty, TRUE)],
                 Scalar("Self"),
                 Body("struct", <<>>,
                      [i \in 1..n |-> <<field_info[i].name, field_info[i].name>>]))>>

\* has_fields of generate_enum_impl
has_fields(variants) ==
    \E i \in 1..Len(variants) : variants[i].fields.style # "unit"

\* #[staticmethod] fn <snake>() -> Self { Self::V }
UnitFactory(variant) ==
    Method("ImplPyNew", to_snake_case(variant.name), "staticmethod", <<>>,
           Scalar("Self"), Body("variant", variant.name, <<>>))

\* generate_simple_enum_impl
generate_simple_enum_impl(variants) ==
    [i \in 1..Len(variants) |-> UnitFactory(variants[i])]

\* the match of generate_oneof_enum_impl, superseded variant: a factory
\* for a named-field variant too
MutOneof_named_factory(variant) ==
    CASE variant.fields.style = "unnamed" /\ Len(variant.fields.list) = 1 ->
           <<Method("ImplPyNew", to_snake_case(variant.name), "classmethod",
                    <<Param(Name("value"), variant.fields.list[1].ty, TRUE)>>,
                    Scalar("Self"),
                    Body("variant", variant.name, <<<<<<"0">>, Name("value")>>>>))>>
      [] variant.fields.style = "unit" -> <<UnitFactory(variant)>>
      [] OTHER -> <<UnitFactory(variant)>>

\* the match of generate_oneof_enum_impl on the fields of one variant:
\* #[classmethod] fn <snake>(_cls, value: T) -> Self { Self::V(value) } for
\* one unnamed field, the unit factory for Fields::Unit, nothing otherwise
oneof_factory(variant) ==
    CASE variant.fields.style = "unnamed" /\ Len(variant.fields.list) = 1 ->
           <<Method("ImplPyNew", to_snake_case(variant.name), "classmethod",
                    <<Param(Name("value"), variant.fields.list[1].ty, TRUE)>>,
                    Scalar("Self"),
                    Body("variant", variant.name, <<<<<<"0">>, Name("value")>>>>))>>
      [] variant.fields.style = "named" -> <<>>
      [] variant.fields.style = "unit" -> <<UnitFactory(variant)>>
      [] OTHER -> <<>>

\* generate_oneof_enum_impl
generate_oneof_enum_impl(variants) ==
    Flatten([i \in 1..Len(variants) |-> oneof_factory(variants[i])])

\* generate_enum_impl: the classification and the methods it leads to
generate_enum_impl(variants) ==
    IF has_fields(variants)
    THEN [class |-> "oneof", methods |-> generate_oneof_enum_impl(variants)]
    ELSE [class |-> "simple", methods |-> generate_simple_enum_impl(variants)]

----------------------------------------------------------------------------
(* ImplPyZeroCopy and ImplPyVecAccessors: the accessors of Vec fields. *)

\* ::numpy::PyArray1<k>, PyReadonlyArray1<k>, PyArray2<k>, PyReadonlyArray2<k>
Numpy(name, k) == TypePath(<<name>>, <<Scalar(k)>>)

FieldInfo(name, inner, is_nested) ==
    [name |-> name, inner |-> inner, is_nested |-> is_nested]

\* the filter_map of generate_zero_copy_impl on one field
zero_copy_field(f) ==
    LET inner_type   == extract_vec_inner_type(f.ty)
        nested_inner == extract_vec_inner_type(inner_type)
    IN  IF inner_type # NoType
        THEN IF nested_inner # NoType /\ is_supported_numeric_type(nested_inner)
             THEN <<FieldInfo(f.name, inner_type, TRUE)>>
             ELSE IF is_supported_numeric_type(inner_type)
             THEN <<FieldInfo(f.name, inner_type, FALSE)>>
             ELSE <<>>
        ELSE <<>>

\* the replace_<field> method quoted for a selected field
replace_method(info) ==
    IF info.is_nested
    THEN Method("ImplPyZeroCopy", Name("replace_") \o info.name, "method",
                <<Param(Name("src"), TypePath(<<"Option">>, <<Numpy("PyReadonlyArray2", "u8")>>), FALSE)>>,
                Numpy("PyArray2", "u8"), Body("replace_", info.name, <<>>))
    ELSE LET k == get_numpy_types(LastSegment(info.inner))
         IN  Method("ImplPyZeroCopy", Name("replace_") \o info.name, "method",
                    <<Param(Name("src"), TypePath(<<"Option">>, <<Numpy("PyReadonlyArray1", k)>>), FALSE)>>,
                    Numpy("PyArray1", k), Body("replace_", info.name, <<>>))

generate_zero_copy_impl(fields) ==
    LET field_info ==
            IF fields.style = "named"
            THEN Flatten([i \in 1..Len(fields.list) |-> zero_copy_field(fields.list[i])])
            ELSE <<>>
    IN  [i \in 1..Len(field_info) |-> replace_method(field_info[i])]

\* the filter_map of generate_vec_accessors_impl on one field
vec_accessors_field(f) ==
    LET inner_type == extract_vec_inner_type(f.ty)
    IN  IF inner_type # NoType /\ is_supported_numeric_type(inner_type)
        THEN <<FieldInfo(f.name, inner_type, FALSE)>>
        ELSE <<>>

\* the accessors quoted for a selected field, superseded variant: no Take_
MutAccessors_without_take(info) ==
    LET list_type_name == Scalar(get_type_info(LastSegment(info.inner)))
    IN  <<Method("ImplPyVecAccessors", Name("Get_") \o info.name, "method", <<>>,
                 list_type_name, Body("Get_", info.name, <<>>)),
          Method("ImplPyVecAccessors", Name("Replace_") \o info.name, "method",
                 <<Param(Name("val"), Scalar("PyAny"), TRUE)>>,
                 list_type_name, Body("Replace_", info.name, <<>>)),
          Method("ImplPyVecAccessors", Name("Set_") \o info.name, "method",
                 <<Param(Name("list"), list_type_name, TRUE)>>,
                 Scalar("()"), Body("Set_", info.name, <<>>))>>

\* the accessors quoted for a selected field: Get_, Take_, Replace_, Set_
accessors(info) ==
    LET list_type_name == Scalar(get_type_info(LastSegment(info.inner)))
    IN  <<Method("ImplPyVecAccessors", Name("Get_") \o info.name, "method", <<>>,
                 list_type_name, Body("Get_", info.name, <<>>)),
          Method("ImplPyVecAccessors", Name("Take_") \o info.name, "method", <<>>,
                 list_type_name, Body("Take_", info.name, <<>>)),
          Method("ImplPyVecAccessors", Name("Replace_") \o info.name, "method",
                 <<Param(Name("val"), Scalar("PyAny"), TRUE)>>,
                 list_type_name, Body("Replace_", info.name, <<>>)),
          Method("ImplPyVecAccessors", Name("Set_") \o info.name, "method",
                 <<Param(Name("list"), list_type_name, TRUE)>>,
                 Scalar("()"), Body("Set_", info.name, <<>>))>>

generate_vec_accessors_impl(fields) ==
    LET field_info ==
            IF fields.style = "named"
            THEN Flatten([i \in 1..Len(fields.list) |-> vec_accessors_field(fields.list[i])])
            ELSE <<>>
    IN  Flatten([i \in 1..Len(field_info) |-> accessors(field_info[i])])

----------------------------------------------------------------------------
(* The derive macros applied to one type.  gen.data is the type, gen.ran   *)
(* the derives expanded so far, gen.failed those that panicked, gen.class  *)
(* the classification of an enum and gen.methods the methods emitted.      *)

GenInput(data) ==
    [stage |-> "derive", data |-> data, ran |-> {}, failed |-> {},
     class |-> "-", methods |-> <<>>]

Expanded(derive, failed, class, methods) ==
    gen' = [gen EXCEPT !.ran = @ \cup {derive},
                       !.failed = @ \cup (IF failed THEN {derive} ELSE {}),
                       !.class = IF class = "-" THEN @ ELSE class,
                       !.methods = @ \o methods]

\* #[derive(ImplPyNew)], superseded variant: a union is passed over in
\* silence
MutPyclass_skips_union ==
    /\ gen.stage = "derive"
    /\ "ImplPyNew" \notin gen.ran
    /\ CASE gen.data.shape = "struct" ->
              Expanded("ImplPyNew", FALSE, "-", generate_struct_impl(gen.data.fields))
         [] gen.data.shape = "enum" ->
              LET e == generate_enum_impl(gen.data.variants)
              IN  Expanded("ImplPyNew", FALSE, e.class, e.methods)
         [] OTHER -> Expanded("ImplPyNew", FALSE, "-", <<>>)
    /\ UNCHANGED <<kind, field, list, last, rt, matrix, mlast, heap, proc>>

\* #[derive(ImplPyNew)]
triton_pyclass_derive ==
    /\ gen.stage = "derive"
    /\ "ImplPyNew" \notin gen.ran
    /\ CASE gen.data.shape = "struct" ->
              Expanded("ImplPyNew", FALSE, "-", generate_struct_impl(gen.data.fields))
         [] gen.data.shape = "enum" ->
              LET e == generate_enum_impl(gen.data.variants)
              IN  Expanded("ImplPyNew", FALSE, e.class, e.methods)
         [] OTHER -> \* panic!("Union types are not supported")
              Expanded("ImplPyNew", TRUE, "-", <<>>)
    /\ UNCHANGED <<kind, field, list, last, rt, matrix, mlast, heap, proc>>

\* #[derive(ImplPyZeroCopy)]
impl_py_zero_copy ==
    /\ gen.stage = "derive"
    /\ "ImplPyZeroCopy" \notin gen.ran
    /\ IF gen.data.shape = "struct"
       THEN Expanded("ImplPyZeroCopy", FALSE, "-", generate_zero_copy_impl(gen.data.fields))
       ELSE Expanded("ImplPyZeroCopy", FALSE, "-", <<>>)
    /\ UNCHANGED <<kind, field, list, last, rt, matrix, mlast, heap, proc>>

\* #[derive(ImplPyVecAccessors)]
impl_py_vec_accessors ==
    /\ gen.stage = "derive"
    /\ "ImplPyVecAccessors" \notin gen.ran
    /\ IF gen.data.shape = "struct"
       THEN Expanded("ImplPyVecAccessors", FALSE, "-",
                     generate_vec_accessors_impl(gen.data.fields))
       ELSE Expanded("ImplPyVecAccessors", FALSE, "-", <<>>)
    /\ UNCHANGED <<kind, field, list, last, rt, matrix, mlast, heap, proc>>

\* The types the macros are applied to
MaxFields == 2
MaxVariants == 3

FieldNames == {<<"x">>, <<"y">>, <<"z">>}

\* the kinds the fields given to the macros are sequences of
FieldKinds == {"bool", "i8", "u8", "f32"}

\* f32, [u8; 4], Vec<String>, Vec<k>, Vec<Vec<u8>>, Vec<Vec<f32>>,
\* prost::alloc::vec::Vec<u8>, std::vec::Vec<f32>
FieldTypes ==
    {Scalar("f32"), [k |-> "array", segs |-> <<>>, args |-> <<>>], VecOf(Scalar("String"))}
      \cup {VecOf(Scalar(k)) : k \in FieldKinds}
      \cup {VecOf(VecOf(Scalar("u8"))), VecOf(VecOf(Scalar("f32")))}
      \cup {TypePath(<<"prost", "alloc", "vec", "Vec">>, <<Scalar("u8")>>),
            TypePath(<<"std", "vec", "Vec">>, <<Scalar("f32")>>)}

Injective(names) ==
    \A i, j \in 1..Len(names) : names[i] = names[j] => i = j

NamedFields(ns, ts) == [i \in 1..Len(ns) |-> Field(ns[i], ts[i])]

\* Empty, Count, Pair, AB
VariantNames ==
    {<<"E", "m", "p", "t", "y">>, <<"C", "o", "u", "n", "t">>, <<"P", "a", "i", "r">>,
     <<"A", "B">>}

\* V, V(), V(i32), V(i32, i32), V { x: i32, y: i32 }
VariantFields ==
    {FieldsUnit, Fields("unnamed", <<>>), Fields("unnamed", <<Field(<<>>, Scalar("i32"))>>),
     Fields("unnamed", <<Field(<<>>, Scalar("i32")), Field(<<>>, Scalar("i32"))>>),
     Fields("named", <<Field(<<"x">>, Scalar("i32")), Field(<<"y">>, Scalar("i32"))>>)}

Variants(ns, fs) == [i \in 1..Len(ns) |-> Variant(ns[i], fs[i])]

\* the type the derives are written on: a struct with named fields, a unit
\* struct, a tuple struct, an enum, a union
InitGen ==
    /\ kind = "i32"
    /\ field = <<>>
    /\ list = ListNew(get_type_info(kind), <<>>)
    /\ last = NoCall
    /\ rt = RtIdle
    /\ matrix = <<>>
    /\ mlast = NoMCall
    /\ proc = ProcIdle
    /\ heap = HeapIdle
    /\ \/ \E n \in 0..MaxFields :
            \E ns \in [1..n -> FieldNames], ts \in [1..n -> FieldTypes] :
               /\ Injective(ns)
               /\ gen = GenInput(Data("struct", Fields("named", NamedFields(ns, ts)), <<>>))
       \/ gen = GenInput(Data("struct", FieldsUnit, <<>>))
       \/ gen = GenInput(Data("struct",
                               Fields("unnamed", <<Field(<<>>, VecOf(Scalar("f32")))>>),
                               <<>>))
       \/ \E n \in 0..MaxVariants :
            \E ns \in [1..n -> VariantNames], fs \in [1..n -> VariantFields] :
               /\ Injective(ns)
               /\ gen = GenInput(Data("enum", FieldsUnit, Variants(ns, fs)))
       \/ gen = GenInput(Data("union", FieldsUnit, <<>>))

NextGen == triton_pyclass_derive \/ impl_py_zero_copy \/ impl_py_vec_accessors

SpecGen == InitGen /\ [][NextGen]_vars

----------------------------------------------------------------------------
(* Claims about the derive macros, under SpecGen. *)

\* the methods one derive has emitted for the type
MethodsOf(derive) == SelectSeq(gen.methods, LAMBDA m : m.derive = derive)

Derived(shape, derives) ==
    /\ gen.stage = "derive"
    /\ gen.data.shape = shape
    /\ derives \subseteq gen.ran

\* the factories that build one variant
FactoriesFor(v) ==
    SelectSeq(MethodsOf("ImplPyNew"),
              LAMBDA m : m.body.k = "variant" /\ m.body.of = v.name)

IsUnitVariant(v)          == v.fields.style = "unit"
IsSinglePayloadVariant(v) == v.fields.style = "unnamed" /\ Len(v.fields.list) = 1
IsNamedFieldVariant(v)    == v.fields.style = "named"

\* enum { Empty, Count(i32), Pair { x: i32, y: i32 } }
ExampleEnum ==
    Data("enum", FieldsUnit,
         <<Variant(<<"E", "m", "p", "t", "y">>, FieldsUnit),
           Variant(<<"C", "o", "u", "n", "t">>,
                   Fields("unnamed", <<Field(<<>>, Scalar("i32"))>>)),
           Variant(<<"P", "a", "i", "r">>,
                   Fields("named", <<Field(<<"x">>, Scalar("i32")),
                                     Field(<<"y">>, Scalar("i32"))>>))>>)

C13_ClassifiedByPayload ==
    Derived("enum", {"ImplPyNew"})
      => LET vs == gen.data.variants
             payloadless == \A i \in 1..Len(vs) : vs[i].fields.list = <<>>
         IN  /\ (gen.class = "simple") <=> payloadless
             /\ payloadless =>
                  /\ Len(MethodsOf("ImplPyNew")) = Len(vs)
                  /\ \A i \in 1..Len(vs) :
                        LET m == MethodsOf("ImplPyNew")[i]
                        IN  /\ m.name = to_snake_case(vs[i].name)
                            /\ m.params = <<>>
                            /\ m.body.k = "variant"
                            /\ m.body.of = vs[i].name

C15_AsClaimed ==
    gen.stage = "derive" =>
        /\ gen.data.shape = "union" => (gen.failed = gen.ran /\ gen.methods = <<>>)
        /\ gen.data.shape \in {"struct", "enum"} => gen.failed = {}

\* C15: on a union ImplPyNew fails, ImplPyZeroCopy and ImplPyVecAccessors
\* expand to nothing without failing, and nothing is emitted for the
\* union; no derive fails on a struct or an enum.
C15_UnionRejectedByImplPyNew ==
    gen.stage = "derive" =>
        /\ gen.data.shape = "union" =>
              /\ gen.failed = gen.ran \cap {"ImplPyNew"}
              /\ gen.methods = <<>>
        /\ gen.data.shape \in {"struct", "enum"} => gen.failed = {}

C15_Witness ==
    /\ Derived("union", {"ImplPyNew", "ImplPyZeroCopy", "ImplPyVecAccessors"})
    /\ gen.failed = {"ImplPyNew"}
    /\ gen.methods = <<>>

\* a sequence type, however its path is written
IsSequenceType(ty) ==
    /\ ty.k = "path"
    /\ ty.segs # <<>>
    /\ LastSegment(ty) = "Vec"
    /\ ty.args # <<>>

IsNumericKind(ty) == \E k \in Kinds : ty = Scalar(k)

\* the selection rule as stated: a sequence of a numeric kind, or a
\* sequence of sequences of bytes
Qualifies(ty) ==
    /\ IsSequenceType(ty)
    /\ \/ IsNumericKind(ty.args[1])
       \/ IsSequenceType(ty.args[1]) /\ ty.args[1].args[1] = Scalar("u8")

\* the accessors emitted for a field, by the prefix of their names
OpsOf(f) ==
    {gen.methods[i].body.k :
        i \in {j \in 1..Len(gen.methods) :
                  /\ gen.methods[j].derive # "ImplPyNew"
                  /\ gen.methods[j].body.of = f.name}}

AccessorsDerived ==
    /\ Derived("struct", {"ImplPyZeroCopy", "ImplPyVecAccessors"})
    /\ gen.data.fields.style = "named"

\* C16 as claimed: a field gets accessors if and only if its type is a
\* sequence of one of the eleven numeric kinds or a sequence of sequences
\* of bytes.
C16_SelectedIffQualifies ==
    AccessorsDerived =>
        \A i \in 1..Len(gen.data.fields.list) :
            LET f == gen.data.fields.list[i]
            IN  (OpsOf(f) # {}) <=> Qualifies(f.ty)

\* C17 as claimed: every field that qualifies, the field of sequences of
\* bytes included, gets a get, a set, a take and a replace accessor.
C17_AsClaimed ==
    AccessorsDerived =>
        \A i \in 1..Len(gen.data.fields.list) :
            LET f == gen.data.fields.list[i]
            IN  Qualifies(f.ty) =>
                  /\ {"Get_", "Set_", "Take_"} \subseteq OpsOf(f)
                  /\ OpsOf(f) \cap {"Replace_", "replace_"} # {}

FlatVecTypes ==
    {VecOf(Scalar(k)) : k \in Kinds}
      \cup {TypePath(<<"prost", "alloc", "vec", "Vec">>, <<Scalar(k)>>) : k \in Kinds}

NestedVecTypes ==
    {VecOf(VecOf(Scalar(k))) : k \in Kinds}

\* C17: a field declared Vec<T> or ..::alloc::vec::Vec<T>, T one of the
\* eleven numeric kinds, gets Get_, Set_, Take_ and Replace_ from
\* ImplPyVecAccessors and replace_ from ImplPyZeroCopy; a field declared
\* Vec<Vec<T>> gets replace_ alone.
C17_QuartetForFlatFields ==
    AccessorsDerived =>
        \A i \in 1..Len(gen.data.fields.list) :
            LET f == gen.data.fields.list[i]
            IN  /\ f.ty \in FlatVecTypes =>
                     OpsOf(f) = {"Get_", "Set_", "Take_", "Replace_", "replace_"}
                /\ f.ty \in NestedVecTypes => OpsOf(f) = {"replace_"}

C17_Witness ==
    /\ AccessorsDerived
    /\ \E i, j \in 1..Len(gen.data.fields.list) :
          /\ gen.data.fields.list[i].ty = VecOf(Scalar("f32"))
          /\ gen.data.fields.list[j].ty = VecOf(VecOf(Scalar("u8")))
          /\ OpsOf(gen.data.fields.list[i]) = {"Get_", "Set_", "Take_", "Replace_", "replace_"}
          /\ OpsOf(gen.data.fields.list[j]) = {"replace_"}

KindTablesTotal ==
    /\ \A k \in Kinds :
          /\ get_type_info(k) \in ListTypes
          /\ ListElem(get_type_info(k)) = k
          /\ get_numpy_types(k) = k
    /\ \A k1, k2 \in Kinds : get_type_info(k1) = get_type_info(k2) => k1 = k2

\* C18: each of the eleven kinds has a container type and a buffer element
\* type, both of that kind, and no two kinds have the same container type;
\* the accessors emitted for a Vec<k> field return the container type and
\* the array type of k.
C18_KindTables ==
    /\ KindTablesTotal
    /\ AccessorsDerived =>
          \A i \in 1..Len(gen.data.fields.list), j \in 1..Len(gen.methods) :
             LET f == gen.data.fields.list[i]
                 m == gen.methods[j]
             IN  (/\ f.ty \in {VecOf(Scalar(k)) : k \in Kinds}
                  /\ m.body.of = f.name)
                   => /\ m.body.k \in {"Get_", "Take_", "Replace_"} =>
                           /\ m.ret.segs[1] \in ListTypes
                           /\ ListElem(m.ret.segs[1]) = f.ty.args[1].segs[1]
                      /\ m.body.k = "replace_" =>
                           m.ret = Numpy("PyArray1", f.ty.args[1].segs[1])

C18_Witness ==
    /\ AccessorsDerived
    /\ \E i \in 1..Len(gen.data.fields.list), j \in 1..Len(gen.methods) :
          /\ gen.data.fields.list[i].ty = VecOf(Scalar("i8"))
          /\ gen.methods[j].body.of = gen.data.fields.list[i].name
          /\ gen.methods[j].body.k = "Get_"
          /\ gen.methods[j].ret = Scalar("ListI8")

----------------------------------------------------------------------------
(* to_snake_case applied to an identifier, and again to its own output:    *)
(* gen.s is the identifier, gen.once and gen.twice the two outputs.        *)

MaxIdent == 3

\* the characters identifiers are made of: uppercase letters with a
\* lowercase form of one character, of two, of none, a titlecase letter, a
\* lowercase letter, the underscore, a digit
IdentChars == {"A", "B", "U+2102", "U+0130", "U+01C5", "a", "_", "1"}

\* the identifiers of up to MaxIdent characters; none starts with a digit
Idents ==
    {s \in UNION {[1..n -> IdentChars] : n \in 1..MaxIdent} : s[1] # "1"}

InitNaming ==
    /\ kind = "i32"
    /\ field = <<>>
    /\ list = ListNew(get_type_info(kind), <<>>)
    /\ last = NoCall
    /\ rt = RtIdle
    /\ matrix = <<>>
    /\ mlast = NoMCall
    /\ proc = ProcIdle
    /\ gen \in {[stage |-> "name", s |-> s, once |-> <<>>, twice |-> <<>>] : s \in Idents}
    /\ heap = HeapIdle

\* once = to_snake_case(s)
snake_once ==
    /\ gen.stage = "name"
    /\ gen' = [gen EXCEPT !.stage = "once", !.once = to_snake_case(gen.s)]
    /\ UNCHANGED <<kind, field, list, last, rt, matrix, mlast, heap, proc>>

\* twice = to_snake_case(once)
snake_twice ==
    /\ gen.stage = "once"
    /\ gen' = [gen EXCEPT !.stage = "twice", !.twice = to_snake_case(gen.once)]
    /\ UNCHANGED <<kind, field, list, last, rt, matrix, mlast, heap, proc>>

NextNaming == snake_once \/ snake_twice

SpecNaming == InitNaming /\ [][NextNaming]_vars

\* C19 as claimed: for every identifier, to_snake_case of the output of
\* to_snake_case is that output, and an identifier without an uppercase
\* character is its own output.
C19_AsClaimed ==
    /\ gen.stage = "twice" => gen.twice = gen.once
    /\ (gen.stage \in {"once", "twice"} /\ \A i \in 1..Len(gen.s) : ~is_uppercase(gen.s[i]))
          => gen.once = gen.s

\* every uppercase character of the identifier has a lowercase form
HasLowercaseForms(s) ==
    \A i \in 1..Len(s) : is_uppercase(s[i]) => ~is_uppercase(Head(to_lowercase(s[i])))

\* C19: for every identifier whose uppercase characters all have a
\* lowercase form, to_snake_case of the output of to_snake_case is that
\* output; and an identifier without an uppercase character is its own
\* output.
C19_IdempotentOnCasedLetters ==
    /\ (gen.stage = "twice" /\ HasLowercaseForms(gen.s)) => gen.twice = gen.once
    /\ (gen.stage \in {"once", "twice"} /\ \A i \in 1..Len(gen.s) : ~is_uppercase(gen.s[i]))
          => gen.once = gen.s

C19_Witness ==
    /\ gen.stage = "twice"
    /\ gen.s = <<"a", "B", "A">>
    /\ gen.once = <<"a", "_", "b", "_", "a">>
    /\ gen.twice = gen.once

----------------------------------------------------------------------------
(* Storage.  Every Vec owns a buffer: heap.bufs maps the buffers to their  *)
(* contents, heap.field is the buffer of the struct's field, and heap.objs *)
(* are the objects the host holds, each a container ("list") or a numpy    *)
(* array ("array") that reads and writes the buffer buf and was made by    *)
(* the operation from ("moved" when a Vec was moved into it, by Take_,     *)
(* Replace_ or into_array).  Buffer 1 is the field's and buffer o + 1 the  *)
(* one allocated for the object in slot o; a move hands the contents to    *)
(* the new owner and leaves the old owner with an empty Vec.               *)

\* objects the host holds at a time, and longest buffer
MaxObjs == 2
MaxHeapLen == 1

Slots == 1..MaxObjs

NoObj == [kind |-> "free", buf |-> 0, from |-> "-"]
Obj(k, buf, from) == [kind |-> k, buf |-> buf, from |-> from]

Live(h) == {o \in Slots : h.objs[o].kind # "free"}

\* the slot of a new host object
FreeSlot(h) == CHOOSE o \in Slots :
                o \notin Live(h) /\ \A p \in Slots : p \notin Live(h) => o <= p

HeapStep(h) ==
    /\ heap' = h
    /\ UNCHANGED <<kind, field, list, last, rt, matrix, mlast, gen, proc>>

CanAllocate == heap.stage = "heap" /\ Live(heap) # Slots

HoldsList(o) ==
    /\ heap.stage = "heap"
    /\ o \in Live(heap)
    /\ heap.objs[o].kind = "list"

\* Get_<field>, superseded variant: the container is made on the field's
\* own buffer
MutHeapGet_shares ==
    /\ CanAllocate
    /\ HeapStep([heap EXCEPT !.objs[FreeSlot(heap)] = Obj("list", heap.field, "Get_")])

\* Get_<field>: ListX::new(self.field.clone())
HeapGet_field ==
    /\ CanAllocate
    /\ LET s == FreeSlot(heap)
       IN  HeapStep([heap EXCEPT !.bufs[s + 1] = heap.bufs[heap.field],
                                 !.objs[s] = Obj("list", s + 1, "Get_")])

\* Take_<field>: ListX::new(mem::replace(&mut self.field, vec![]))
HeapTake_field ==
    /\ CanAllocate
    /\ LET s == FreeSlot(heap)
       IN  HeapStep([heap EXCEPT !.bufs[s + 1] = heap.bufs[heap.field],
                                 !.bufs[heap.field] = <<>>,
                                 !.objs[s] = Obj("list", s + 1, "moved")])

\* Set_<field>(list): the argument is extracted as a clone of the held
\* container, self.field = list.into_vec()
HeapSet_field(o) ==
    /\ HoldsList(o)
    /\ HeapStep([heap EXCEPT !.bufs[heap.field] = heap.bufs[heap.objs[o].buf]])

\* Replace_<field>(val): val is extracted as a clone, the field takes the
\* clone's Vec and the previous one is moved into a new container
HeapReplace_field(o) ==
    /\ CanAllocate
    /\ HoldsList(o)
    /\ LET s == FreeSlot(heap)
       IN  HeapStep([heap EXCEPT !.bufs[s + 1] = heap.bufs[heap.field],
                                 !.bufs[heap.field] = heap.bufs[heap.objs[o].buf],
                                 !.objs[s] = Obj("list", s + 1, "moved")])

\* copy: self.clone()
HeapCopy(o) ==
    /\ CanAllocate
    /\ HoldsList(o)
    /\ LET s == FreeSlot(heap)
       IN  HeapStep([heap EXCEPT !.bufs[s + 1] = heap.bufs[heap.objs[o].buf],
                                 !.objs[s] = Obj("list", s + 1, "copy")])

\* to_array: PyArray1::from_vec(py, self.inner.clone())
HeapTo_array(o) ==
    /\ CanAllocate
    /\ HoldsList(o)
    /\ LET s == FreeSlot(heap)
       IN  HeapStep([heap EXCEPT !.bufs[s + 1] = heap.bufs[heap.objs[o].buf],
                                 !.objs[s] = Obj("array", s + 1, "to_array")])

\* into_array: PyArray1::from_vec(py, mem::take(&mut self.inner))
HeapInto_array(o) ==
    /\ CanAllocate
    /\ HoldsList(o)
    /\ LET s == FreeSlot(heap)
       IN  HeapStep([heap EXCEPT !.bufs[s + 1] = heap.bufs[heap.objs[o].buf],
                                 !.bufs[heap.objs[o].buf] = <<>>,
                                 !.objs[s] = Obj("array", s + 1, "moved")])

\* append: self.inner.push(item)
HeapAppend(o, item) ==
    /\ HoldsList(o)
    /\ Len(heap.bufs[heap.objs[o].buf]) < MaxHeapLen
    /\ HeapStep([heap EXCEPT !.bufs[heap.objs[o].buf] = Append(@, item)])

\* __setitem__ within the length, and the host's a[i] = value on an array
HeapSetitem(o, i, value) ==
    /\ heap.stage = "heap"
    /\ o \in Live(heap)
    /\ i \in 1..Len(heap.bufs[heap.objs[o].buf])
    /\ HeapStep([heap EXCEPT !.bufs[heap.objs[o].buf][i] = value])

\* clear: self.inner.clear()
HeapClear(o) ==
    /\ HoldsList(o)
    /\ HeapStep([heap EXCEPT !.bufs[heap.objs[o].buf] = <<>>])

\* the host lets go of an object, whose buffer is deallocated
HeapDrop(o) ==
    /\ heap.stage = "heap"
    /\ o \in Live(heap)
    /\ HeapStep([heap EXCEPT !.bufs[o + 1] = <<>>, !.objs[o] = NoObj])

InitHeap ==
    /\ kind = "i32"
    /\ field = <<>>
    /\ list = ListNew(get_type_info(kind), <<>>)
    /\ last = NoCall
    /\ rt = RtIdle
    /\ matrix = <<>>
    /\ mlast = NoMCall
    /\ proc = ProcIdle
    /\ gen = GenIdle
    /\ heap \in {[stage |-> "heap",
                  bufs |-> [b \in 1..(MaxObjs + 1) |-> IF b = 1 THEN s ELSE <<>>],
                  field |-> 1,
                  objs |-> [o \in Slots |-> NoObj]] : s \in SeqsUpTo(Elems, MaxHeapLen)}

NextHeap ==
    \/ HeapGet_field
    \/ HeapTake_field
    \/ \E o \in Slots : HeapSet_field(o)
    \/ \E o \in Slots : HeapReplace_field(o)
    \/ \E o \in Slots : HeapCopy(o)
    \/ \E o \in Slots : HeapTo_array(o)
    \/ \E o \in Slots : HeapInto_array(o)
    \/ \E o \in Slots, item \in Elems : HeapAppend(o, item)
    \/ \E o \in Slots, i \in 1..MaxHeapLen, value \in Elems : HeapSetitem(o, i, value)
    \/ \E o \in Slots : HeapClear(o)
    \/ \E o \in Slots : HeapDrop(o)

SpecHeap == InitHeap /\ [][NextHeap]_vars

----------------------------------------------------------------------------
(* Claims about storage, under SpecHeap. *)

\* what the host reads from the object in slot o, and from the field
View(h, o) == h.bufs[h.objs[o].buf]
FieldView(h) == h.bufs[h.field]

\* no buffer has two owners
NoSharing ==
    heap.stage = "heap" =>
        /\ \A o \in Live(heap) : heap.objs[o].buf # heap.field
        /\ \A o, p \in Live(heap) : heap.objs[o].buf = heap.objs[p].buf => o = p

\* a call changes what is read from one holder at most, of those that
\* live through it
OneHolderChanges ==
    heap.stage = "heap" =>
        LET changed == {o \in Live(heap) \cap Live(heap') : View(heap', o) # View(heap, o)}
        IN  /\ Cardinality(changed) <= 1
            /\ FieldView(heap') # FieldView(heap) => changed = {}

----------------------------------------------------------------------------
(* The derive macros over whole builds.  A build is one compilation of a   *)
(* crate: gen.types[b] are the types of build b, in declaration order,     *)
(* and gen.out the expansions done so far, each with the build, the type   *)
(* and the derive it belongs to.  Build 1 holds MaxTypes types, build 2 a  *)
(* single type; the expansions of a build run in any order.                *)

MaxTypes == 2

Derives == {"ImplPyNew", "ImplPyZeroCopy", "ImplPyVecAccessors"}

\* struct S { x: Vec<f32>, y: Vec<Vec<u8>> }, the enum Empty, Count(i32),
\* Pair { x, y }, a union
BuildTypes ==
    {Data("struct",
          Fields("named", <<Field(<<"x">>, VecOf(Scalar("f32"))),
                            Field(<<"y">>, VecOf(VecOf(Scalar("u8"))))>>),
          <<>>),
     Data("enum", FieldsUnit,
          <<Variant(<<"E", "m", "p", "t", "y">>, FieldsUnit),
            Variant(<<"C", "o", "u", "n", "t">>,
                    Fields("unnamed", <<Field(<<>>, Scalar("i32"))>>)),
            Variant(<<"P", "a", "i", "r">>,
                    Fields("named", <<Field(<<"x">>, Scalar("i32")),
                                      Field(<<"y">>, Scalar("i32"))>>))>>),
     Data("union", FieldsUnit, <<>>)}

\* what one derive emits for one type: the token stream is computed from
\* the DeriveInput alone
expand_derive(data, derive) ==
    CASE derive = "ImplPyNew" /\ data.shape = "struct" ->
            [failed |-> FALSE, class |-> "-",
             methods |-> generate_struct_impl(data.fields)]
      [] derive = "ImplPyNew" /\ data.shape = "enum" ->
            [failed |-> FALSE] @@ generate_enum_impl(data.variants)
      [] derive = "ImplPyNew" ->
            [failed |-> TRUE, class |-> "-", methods |-> <<>>]
      [] derive = "ImplPyZeroCopy" /\ data.shape = "struct" ->
            [failed |-> FALSE, class |-> "-",
             methods |-> generate_zero_copy_impl(data.fields)]
      [] derive = "ImplPyVecAccessors" /\ data.shape = "struct" ->
            [failed |-> FALSE, class |-> "-",
             methods |-> generate_vec_accessors_impl(data.fields)]
      [] OTHER -> [failed |-> FALSE, class |-> "-", methods |-> <<>>]

\* superseded variant: the expansion depends on what the build expanded
\* before it
MutExpand_counts(b, t, derive) ==
    /\ gen.stage = "build"
    /\ \A r \in gen.out : <<r.b, r.t, r.derive>> # <<b, t, derive>>
    /\ LET whole == expand_derive(gen.types[b][t], derive)
           res   == IF \E r \in gen.out : r.b = b
                    THEN [whole EXCEPT !.methods = <<>>]
                    ELSE whole
       IN  gen' = [gen EXCEPT !.out = @ \cup {[b |-> b, t |-> t, derive |-> derive,
                                               res |-> res]}]
    /\ UNCHANGED <<kind, field, list, last, rt, matrix, mlast, heap, proc>>

\* the compiler expands one derive on one type of one build
expand(b, t, derive) ==
    /\ gen.stage = "build"
    /\ \A r \in gen.out : <<r.b, r.t, r.derive>> # <<b, t, derive>>
    /\ gen' = [gen EXCEPT !.out = @ \cup {[b |-> b, t |-> t, derive |-> derive,
                                           res |-> expand_derive(gen.types[b][t], derive)]}]
    /\ UNCHANGED <<kind, field, list, last, rt, matrix, mlast, heap, proc>>

InitBuild ==
    /\ kind = "i32"
    /\ field = <<>>
    /\ list = ListNew(get_type_info(kind), <<>>)
    /\ last = NoCall
    /\ rt = RtIdle
    /\ matrix = <<>>
    /\ mlast = NoMCall
    /\ proc = ProcIdle
    /\ heap = HeapIdle
    /\ \E crate \in [1..MaxTypes -> BuildTypes], alone \in BuildTypes :
          gen = [stage |-> "build", types |-> <<crate, <<alone>>>>, out |-> {}]

NextBuild ==
    \E b \in 1..2 : \E t \in 1..Len(gen.types[b]), derive \in Derives :
        expand(b, t, derive)

SpecBuild == InitBuild /\ [][NextBuild]_vars

----------------------------------------------------------------------------
(* Claims about the nested replace_<field>, under SpecMatrix. *)

\* C22 as claimed: a replace_<field> call of the nested field that reports
\* a failure leaves the field holding its previous rows, and a call that
\* changes the field returns the previous rows; no call overwrites the
\* field and then reports a failure.
C22_IndivisibleExchange ==
    mlast.op = "replace_" =>
        /\ mlast.res # OK => matrix = mlast.pre
        /\ matrix # mlast.pre => (mlast.res = OK /\ mlast.ret = mlast.pre)

----------------------------------------------------------------------------
(* Claims about the algorithm of to_snake_case, under SpecNaming. *)

\* the string the stated algorithm gives: one underscore before each
\* uppercase character that is not the first, every character lowercased
StatedSnakeCase(s) ==
    Flatten([i \in 1..Len(s) |->
                (IF is_uppercase(s[i]) /\ i > 1 THEN <<"_">> ELSE <<>>)
                   \o to_lowercase(s[i])])

\* C23 as claimed: for every identifier, to_snake_case returns the
\* characters in order, with one underscore before each uppercase
\* character that is not at position 0 and every character lowercased.
C23_StatedAlgorithm ==
    gen.stage \in {"once", "twice"} => gen.once = StatedSnakeCase(gen.s)

----------------------------------------------------------------------------
(* Claims about the length and the order of a container, under            *)
(* SpecContainer. *)

\* C24: __len__ returns the number of elements the container holds; after
\* a successful append or insert the container holds one element more than
\* before the call, after a successful remove one less, after clear and
\* into_array none, after construction the elements it was given, and
\* after every other call, a failed index operation included, as many as
\* before.
C24_LengthAccurate ==
    /\ last.op = "__len__" => last.ret = <<Len(list.inner)>>
    /\ Len(list.inner) =
          CASE last.op \in {"append", "insert"} /\ last.res = OK -> LenBefore + 1
            [] last.op = "remove" /\ last.res = OK               -> LenBefore - 1
            [] last.op \in {"clear", "into_array"}               -> 0
            [] last.op = "new_py"                                -> Len(last.ret)
            [] OTHER                                             -> LenBefore

C24_Witness ==
    /\ last.op = "remove"
    /\ last.res = OK
    /\ LenBefore = 2
    /\ Len(list.inner) = 1

C29_FailedIndexOpKeepsContainer ==
    (last.op \in IndexOps /\ last.res = IndexError) =>
        /\ list.inner = last.lpre
        /\ list.ty = get_type_info(kind)
        /\ last.ret = <<>>

C29_Witness ==
    /\ last.op = "__setitem__"
    /\ last.res = IndexError
    /\ last.idx = LenBefore
    /\ LenBefore >= 1
    /\ list.inner = last.lpre

----------------------------------------------------------------------------
(* One struct instance with both its fields in use: the accessors of the   *)
(* Vec<T> field and the replace_<field> of the Vec<Vec<u8>> field, called  *)
(* in any order.                                                           *)

InitFrame ==
    /\ kind = "i32"
    /\ field \in SeqsUpTo(Elems, MaxLen)
    /\ list = ListNew(get_type_info(kind), <<1>>)
    /\ last = NoCall
    /\ rt = RtIdle
    /\ matrix \in MatrixInits
    /\ mlast = NoMCall
    /\ proc = ProcIdle
    /\ gen = GenIdle
    /\ heap = HeapIdle

\* the host calls an accessor of either field, with an argument that is
\* accepted or one that is refused
NextFrame ==
    \/ Get_field(FALSE)
    \/ Take_field(FALSE)
    \/ \E a \in {OtherArg, ListArg(list)} : Replace_field(a, FALSE)
    \/ \E a \in {OtherArg, ListArg(list)} : Set_field(a)
    \/ \E a \in {NoneArg, OtherArg, ArrayArg(get_numpy_types(kind), <<0>>, TRUE)} :
          replace_field(a)
    \/ \E src \in {NoneSrc, OtherSrc, Array2(1, 1, "C")} : replace_matrix(src)

SpecFrame == InitFrame /\ [][NextFrame]_vars

\* C28: a Get_, Set_, Take_, Replace_ or replace_ call on the Vec<T> field,
\* successful or failed, leaves the Vec<Vec<u8>> field of the instance as
\* it was, and a replace_ call on the Vec<Vec<u8>> field, successful or
\* failed, leaves the Vec<T> field as it was.
C28_OtherFieldUnchanged ==
    [][/\ AccessorCall => matrix' = matrix
       /\ NextMatrix => field' = field]_vars

\* both fields hold elements, a call on the one has failed and a call on
\* the other has succeeded
C28_Witness ==
    /\ last.op = "Replace_"
    /\ last.res = ExtractError
    /\ mlast.op = "replace_"
    /\ mlast.res = OK
    /\ field # <<>>
    /\ matrix # <<>>

----------------------------------------------------------------------------
(* Host threads calling the accessors of one Vec<T> field of one instance  *)
(* at the same time (the module is declared gil_used = false).  A Vec is   *)
(* a buffer and a length, read and written one word at a time:             *)
(* heap.field = [buf, len].  Buffer b holds b elements, buffer 0 being     *)
(* the empty Vec, so that a buffer seen with the length of another is      *)
(* recognised.  heap.flag is the borrow flag of the instance (0: not       *)
(* borrowed, n > 0: n shared borrows, -1: the exclusive borrow), which     *)
(* the wrapper of a &self method takes shared and the wrapper of a         *)
(* &mut self method takes exclusive, failing when it cannot.               *)
(* heap.thr[t] is thread t: where it is in its call (pc), what it read     *)
(* (tmp) and what the call returned (ret, res).  Thread t passes buffer    *)
(* t + 1 to Set_ and Replace_.                                             *)

MaxThreads == 2

BorrowError == "RuntimeError: Already borrowed"

VecOfBuf(b) == [buf |-> b, len |-> b]

ThreadStep(t, thread, fld, flag) ==
    /\ heap' = [heap EXCEPT !.thr[t] = thread, !.field = fld, !.flag = flag]
    /\ UNCHANGED <<kind, field, list, last, rt, matrix, mlast, gen, proc>>

\* the wrapper of a method, superseded variant: the instance is not
\* borrowed
MutCall_unchecked(t, op) ==
    /\ heap.stage = "threads"
    /\ heap.thr[t].pc = "idle"
    /\ ThreadStep(t, [heap.thr[t] EXCEPT !.pc = "read", !.op = op], heap.field, heap.flag)

\* thread t calls Get_ (&self) or Take_, Replace_, Set_ (&mut self): the
\* wrapper borrows the instance or raises
call(t, op) ==
    /\ heap.stage = "threads"
    /\ heap.thr[t].pc = "idle"
    /\ IF op = "Get_"
       THEN IF heap.flag >= 0
            THEN ThreadStep(t, [heap.thr[t] EXCEPT !.pc = "read", !.op = op],
                            heap.field, heap.flag + 1)
            ELSE ThreadStep(t, [heap.thr[t] EXCEPT !.pc = "done", !.op = op,
                                                   !.res = BorrowError],
                            heap.field, heap.flag)
       ELSE IF heap.flag = 0
            THEN ThreadStep(t, [heap.thr[t] EXCEPT !.pc = "read", !.op = op],
                            heap.field, -1)
            ELSE ThreadStep(t, [heap.thr[t] EXCEPT !.pc = "done", !.op = op,
                                                   !.res = BorrowError],
                            heap.field, heap.flag)

\* the next memory access of the method thread t is in: the read of the
\* field (clone, or the first half of mem::replace), the write of its
\* buffer, the write of its length; the last one returns and gives the
\* borrow back
body(t) ==
    LET th  == heap.thr[t]
        new == IF th.op = "Take_" THEN VecOfBuf(0) ELSE VecOfBuf(t + 1)
        released == IF heap.flag > 0 THEN heap.flag - 1 ELSE 0
    IN  /\ heap.stage = "threads"
        /\ CASE th.pc = "read" /\ th.op = "Get_" ->
                  ThreadStep(t, [th EXCEPT !.pc = "done", !.ret = heap.field, !.res = OK],
                             heap.field, released)
             [] th.pc = "read" ->
                  ThreadStep(t, [th EXCEPT !.pc = "buf", !.tmp = heap.field],
                             heap.field, heap.flag)
             [] th.pc = "buf" ->
                  ThreadStep(t, [th EXCEPT !.pc = "len"],
                             [heap.field EXCEPT !.buf = new.buf], heap.flag)
             [] th.pc = "len" ->
                  ThreadStep(t, [th EXCEPT !.pc = "done", !.res = OK,
                                           !.ret = IF th.op = "Set_" THEN VecOfBuf(0)
                                                   ELSE th.tmp],
                             [heap.field EXCEPT !.len = new.len], released)
             [] OTHER -> FALSE

InitThreads ==
    /\ kind = "i32"
    /\ field = <<>>
    /\ list = ListNew(get_type_info(kind), <<>>)
    /\ last = NoCall
    /\ rt = RtIdle
    /\ matrix = <<>>
    /\ mlast = NoMCall
    /\ proc = ProcIdle
    /\ gen = GenIdle
    /\ heap = [stage |-> "threads", field |-> VecOfBuf(1), flag |-> 0,
               thr |-> [t \in 1..MaxThreads |->
                          [pc |-> "idle", op |-> "-", tmp |-> VecOfBuf(0),
                           ret |-> VecOfBuf(0), res |-> "-"]]]

NextThreads ==
    \E t \in 1..MaxThreads :
        \/ \E op \in {"Get_", "Take_", "Replace_", "Set_"} : call(t, op)
        \/ body(t)

SpecThreads == InitThreads /\ [][NextThreads]_vars

\* the calls that have returned a value of the field
Returned(ops) ==
    {t \in 1..MaxThreads : heap.thr[t].pc = "done" /\ heap.thr[t].res = OK /\ heap.thr[t].op \in ops}

MaxInits == 3
MaxCalls == 2

\* utils.rs init_log: Logger::try_with_str(level).unwrap() panics on a level
\* string that does not parse, and .start().unwrap() panics when the process
\* already has a logger.
init_log(logger, level_ok) ==
    IF ~level_ok THEN [res |-> Panic, logger |-> logger]
    ELSE IF logger THEN [res |-> Panic, logger |-> TRUE]
    ELSE [res |-> OK, logger |-> TRUE]

\* lib.rs triton_client, the #[pymodule] initialiser: init_log, then
\* Runtime::new()?, then TOKIO_RT.set(rt) whose failure is only logged, then
\* the add_class calls.  The module definition keeps the module object of a
\* run that returned Ok, so the initialiser runs again only after a run that
\* failed.
triton_client(level_ok, rt_ok, classes_ok) ==
    /\ proc.stage = "process"
    /\ ~proc.loaded
    /\ proc.inits < MaxInits
    /\ LET n == proc.inits + 1
           log == init_log(proc.logger, level_ok)
           made == log.res = OK /\ rt_ok
           res == IF log.res # OK THEN Panic
                  ELSE IF ~rt_ok THEN "OSError"
                  ELSE IF ~classes_ok THEN "TypeError"
                  ELSE OK
       IN proc' = [proc EXCEPT
                     !.inits = n,
                     !.logger = log.logger,
                     !.TOKIO_RT = IF made /\ @ = 0 THEN n ELSE @,
                     !.loaded = (res = OK),
                     !.init = [n |-> n, res |-> res, before |-> proc.TOKIO_RT,
                               env |-> level_ok /\ rt_ok /\ classes_ok]]
    /\ UNCHANGED <<kind, field, list, last, rt, matrix, mlast, gen, heap>>

\* py_impl.rs: every #[pymethods] function of Client starts with
\* TOKIO_RT.get().context("failed to get tokio runtime")? and then blocks on
\* the remote call; `reply` is what the server answers.  The wrappers of the
\* bool queries return the field of the response, those of the commands
\* return true, and the others serialise the response.
MutClient_op_unwraps(op, reply) ==
    /\ proc.stage = "process"
    /\ op = "new" \/ proc.client
    /\ proc.sent < MaxCalls
    /\ proc' = [proc EXCEPT
                  !.sent = @ + 1,
                  !.client = @ \/ (op = "new" /\ reply.ok /\ proc.TOKIO_RT # 0),
                  !.call = [op |-> op, cell |-> proc.TOKIO_RT, sent |-> 1,
                            res |-> IF proc.TOKIO_RT = 0 THEN Panic
                                    ELSE IF reply.ok THEN OK
                                    ELSE "ResponseError",
                            val |-> <<"bool", reply.val>>]]
    /\ UNCHANGED <<kind, field, list, last, rt, matrix, mlast, gen, heap>>

\* What each wrapper returns after a remote call that succeeded: the Client,
\* a bool field of the response, the constant true, or the response encoded
\* as JSON text (model_infer: as protobuf bytes).
ClientOps ==
    [new |-> "client",
     server_live |-> "field", server_ready |-> "field", model_ready |-> "field",
     server_metadata |-> "encoded", model_metadata |-> "encoded",
     model_infer |-> "encoded", model_config |-> "encoded",
     model_statistics |-> "encoded", repository_index |-> "encoded",
     repository_model_load |-> "true", repository_model_unload |-> "true",
     system_shared_memory_status |-> "encoded",
     system_shared_memory_register |-> "true",
     system_shared_memory_unregister |-> "true",
     cuda_shared_memory_status |-> "encoded",
     cuda_shared_memory_register |-> "true",
     cuda_shared_memory_unregister |-> "true",
     trace_setting |-> "encoded"]

client_op(op, reply) ==
    /\ proc.stage = "process"
    /\ op = "new" \/ proc.client
    /\ proc.sent < MaxCalls
    /\ LET cell == proc.TOKIO_RT
           out == IF cell = 0
                  THEN [res |-> "General error: failed to get tokio runtime",
                        val |-> <<>>, sent |-> 0]
                  ELSE IF ~reply.ok
                  THEN [res |-> "ResponseError", val |-> <<>>, sent |-> 1]
                  ELSE [res |-> OK, sent |-> 1,
                        val |-> CASE ClientOps[op] = "field" ->
                                         <<"bool", reply.val>>
                                  [] ClientOps[op] = "encoded" ->
                                         <<"encoded", reply.val>>
                                  [] OTHER -> <<ClientOps[op]>>]
       IN proc' = [proc EXCEPT
                     !.sent = @ + out.sent,
                     !.client = @ \/ (op = "new" /\ out.res = OK),
                     !.call = [op |-> op, cell |-> cell, sent |-> out.sent,
                               res |-> out.res, val |-> out.val]]
    /\ UNCHANGED <<kind, field, list, last, rt, matrix, mlast, gen, heap>>

InitProcess ==
    /\ kind = "i32"
    /\ field = <<>>
    /\ list = ListNew(get_type_info(kind), <<>>)
    /\ last = NoCall
    /\ rt = RtIdle
    /\ matrix = <<>>
    /\ mlast = NoMCall
    /\ gen = GenIdle
    /\ heap = HeapIdle
    /\ proc = [stage |-> "process", logger |-> FALSE, TOKIO_RT |-> 0,
               loaded |-> FALSE, inits |-> 0,
               init |-> [n |-> 0, res |-> OK, before |-> 0, env |-> FALSE],
               client |-> FALSE, sent |-> 0,
               call |-> [op |-> "none", res |-> OK, val |-> <<>>,
                         cell |-> 0, sent |-> 0]]

\* Python reaches Client only through the loaded module.
NextProcess ==
    \/ \E level_ok, rt_ok, classes_ok \in BOOLEAN :
           triton_client(level_ok, rt_ok, classes_ok)
    \/ /\ proc.loaded
       /\ \E op \in DOMAIN ClientOps, ok, val \in BOOLEAN :
              client_op(op, [ok |-> ok, val |-> val])

SpecProcess == InitProcess /\ [][NextProcess]_vars

\* C27: the first initialisation of the module stores the runtime, every
\* later initialisation attempt leaves the stored runtime as it is and
\* completes without failing the module load, and the runtime is stored
\* before any Client operation can use it.  Attempts count when the
\* environment lets them through: the log level parses, the operating
\* system grants a runtime and the classes register.
C27_InitialisedOnce ==
    (proc.stage = "process" /\ proc.init.env) =>
        /\ proc.init.n = 1 => (proc.init.res = OK /\ proc.TOKIO_RT = 1)
        /\ proc.init.n > 1 =>
               /\ proc.init.res = OK
               /\ proc.init.before # 0 => proc.TOKIO_RT = proc.init.before
        /\ proc.loaded => proc.TOKIO_RT # 0

(***************************************************************************)
(* The Client wrappers as functions of the state of the TOKIO_RT cell: a   *)
(* call is made with the cell empty or holding a runtime, and with or      *)
(* without a Client at hand.                                               *)
(***************************************************************************)
InitClient ==
    /\ kind = "i32"
    /\ field = <<>>
    /\ list = ListNew(get_type_info(kind), <<>>)
    /\ last = NoCall
    /\ rt = RtIdle
    /\ matrix = <<>>
    /\ mlast = NoMCall
    /\ gen = GenIdle
    /\ heap = HeapIdle
    /\ \E cell \in {0, 1}, client \in BOOLEAN :
           proc = [stage |-> "process", logger |-> cell # 0, TOKIO_RT |-> cell,
                   loaded |-> cell # 0, inits |-> cell,
                   init |-> [n |-> cell, res |-> OK, before |-> 0,
                            env |-> cell # 0],
                   client |-> client, sent |-> 0,
                   call |-> [op |-> "none", res |-> OK, val |-> <<>>,
                             cell |-> 0, sent |-> 0]]

NextClient ==
    \E op \in DOMAIN ClientOps, ok, val \in BOOLEAN :
        client_op(op, [ok |-> ok, val |-> val])

SpecClient == InitClient /\ [][NextClient]_vars

====
